---- MODULE Spec2Model ----
(***************************************************************************)
(* unexec for Windows NT (src/src/unexw32.c): the running program writes a  *)
(* copy of its own executable in which the data and bss regions hold their  *)
(* current in-memory contents.                                              *)
(*                                                                          *)
(* Files and memory are arrays of cells.  A cell is a record [k, v]: the    *)
(* source file's cell at offset o is SrcByte(o), the process's cell at RVA  *)
(* r is MemByte(r), so that every cell of the output says where its content *)
(* came from.  Addresses in the process are kept as RVAs (PTR_TO_RVA).      *)
(***************************************************************************)
EXTENDS Integers, Sequences, FiniteSets, TLC

\* ------------------------------------------------------------- bounds
NumSections == 2        \* sections of the source image
MaxLen      == 2        \* a region starts at most MaxLen cells into its
                        \* section and is 1..MaxLen cells long
TrailerLen  == 2        \* cells after the last section's raw data
WordBits    == 16       \* width the DWORD_PTR / unsigned long arithmetic wraps at

FileAlignments == {2}   \* OptionalHeader.FileAlignment (a power of two)

WordMod == 2 ^ WordBits
Wrap(x) == x % WordMod

SectionAlignment(fa) == 2 * fa
\* DOS header + NT headers take one cell, each section header one cell.
HeaderLen == 1 + NumSections

Max2(a, b) == IF a >= b THEN a ELSE b
Min2(a, b) == IF a <= b THEN a ELSE b

ROUND_UP(p, align) == ((p + align - 1) \div align) * align

RECURSIVE SumUpTo(_, _)
SumUpTo(s, n) == IF n = 0 THEN 0 ELSE s[n] + SumUpTo(s, n - 1)

\* ------------------------------------------------------------- cells
SrcByte(o)  == [k |-> "src",  v |-> o]
MemByte(r)  == [k |-> "mem",  v |-> r]
HdrByte(o)  == [k |-> "hdr",  v |-> o]
DbgEntry(p) == [k |-> "dbg",  v |-> p]
ZeroByte    == [k |-> "zero", v |-> 0]

\* What a cell adds to a checksum: different for cells of different origin.
Weight(cell) ==
  CASE cell.k = "zero" -> 0
    [] cell.k = "hdr"  -> 1 + cell.v
    [] cell.k = "src"  -> 2 + 3 * cell.v
    [] cell.k = "mem"  -> 3 + 5 * cell.v
    [] cell.k = "dbg"  -> 4 + 7 * cell.v

\* CheckSumMappedFile of imagehlp.dll: a sum over the first size cells of the
\* view, to which the length is added.
RECURSIVE CheckSumMappedFile(_, _)
CheckSumMappedFile(base, size) ==
  IF size = 0 THEN 0
  ELSE Wrap(CheckSumMappedFile(base, size - 1) + 1
            + IF (size - 1) \in DOMAIN base THEN Weight(base[size - 1]) ELSE 0)

\* ------------------------------------------------------------- source images
\* What a linker emits for one section: its name, its raw size in alignment
\* units, its virtual size, whether a section without raw data has a zero
\* PointerToRawData, and its content flags.
SectionShapes(fa) ==
  { [Name |-> ".text",  raw |-> fa,     vsize |-> fa,     ptr0 |-> FALSE, flags |-> {"CODE"}],
    [Name |-> ".data",  raw |-> fa,     vsize |-> 2 * fa, ptr0 |-> FALSE, flags |-> {"INIT"}],
    [Name |-> "EMDATA", raw |-> 2 * fa, vsize |-> 2 * fa, ptr0 |-> FALSE, flags |-> {"INIT"}],
    [Name |-> "EMDATA", raw |-> fa,     vsize |-> fa + 1, ptr0 |-> FALSE, flags |-> {"INIT"}],
    [Name |-> ".bss",   raw |-> 0,      vsize |-> fa + 1, ptr0 |-> TRUE,  flags |-> {"UNINIT"}],
    [Name |-> ".bss",   raw |-> 0,      vsize |-> fa + 1, ptr0 |-> FALSE, flags |-> {"UNINIT"}] }

RealSize(raw, vsize) == Max2(raw, vsize)

\* The section table the linker lays out for a sequence of shapes: raw data
\* back to back after the aligned headers, virtual addresses ascending in
\* steps of SectionAlignment.
SectionTable(shapes, fa, lnptr) ==
  LET n      == Len(shapes)
      raws   == [j \in 1..n |-> shapes[j].raw]
      spans  == [j \in 1..n |->
                   ROUND_UP(RealSize(shapes[j].raw, shapes[j].vsize), SectionAlignment(fa))]
      first  == ROUND_UP(HeaderLen, fa)
  IN [j \in 1..n |->
        [Name                 |-> shapes[j].Name,
         VirtualAddress       |-> SectionAlignment(fa) + SumUpTo(spans, j - 1),
         VirtualSize          |-> shapes[j].vsize,
         PointerToRawData     |-> IF shapes[j].ptr0 THEN 0 ELSE first + SumUpTo(raws, j - 1),
         SizeOfRawData        |-> shapes[j].raw,
         Characteristics      |-> shapes[j].flags,
         PointerToLinenumbers |-> IF j = 1 THEN lnptr ELSE 0]]

HasRawData(shapes) == \E j \in 1..Len(shapes) : shapes[j].raw > 0

\* First read-only section (it holds the debug directory), 0 if there is none.
FirstText(shapes) ==
  IF \E j \in 1..Len(shapes) : "CODE" \in shapes[j].flags
  THEN CHOOSE j \in 1..Len(shapes) :
         /\ "CODE" \in shapes[j].flags
         /\ \A h \in 1..(j - 1) : "CODE" \notin shapes[h].flags
  ELSE 0

LastRawShape(shapes) ==
  CHOOSE j \in 1..Len(shapes) :
    /\ shapes[j].raw > 0
    /\ \A h \in (j + 1)..Len(shapes) : shapes[h].raw = 0

\* A source image.  full = FALSE: no trailing data, no symbol table, no line
\* numbers, no debug directory.  full = TRUE: TrailerLen trailing cells holding
\* the symbol table and the first section's line numbers, and a debug
\* directory of two entries (the first unused, the second pointing into the
\* last section's raw data) at the start of the first read-only section.
Image(shapes, fa, full, magic, sig) ==
  LET plain == SectionTable(shapes, fa, 0)
      rend  == ROUND_UP(HeaderLen, fa) + SumUpTo([j \in 1..Len(shapes) |-> shapes[j].raw], Len(shapes))
      secs  == SectionTable(shapes, fa, IF full THEN rend + 1 ELSE 0)
      dsec  == FirstText(shapes)
  IN [name                 |-> "temacs.exe",
      e_magic_ok           |-> magic,
      Signature_ok         |-> sig,
      FileAlignment        |-> fa,
      NumberOfSections     |-> Len(shapes),
      sections             |-> secs,
      size                 |-> IF full THEN rend + TrailerLen ELSE rend,
      PointerToSymbolTable |-> IF full THEN rend ELSE 0,
      SizeOfInitializedData   |-> 0,
      SizeOfUninitializedData |-> 0,
      CheckSum             |-> CheckSumMappedFile(
                                 [o \in 0..(rend + TrailerLen) |-> SrcByte(o)],
                                 IF full THEN rend + TrailerLen ELSE rend),
      DebugVA              |-> IF full /\ dsec # 0 THEN plain[dsec].VirtualAddress ELSE 0,
      DebugEntries         |-> IF full /\ dsec # 0
                               THEN << 0, plain[LastRawShape(shapes)].PointerToRawData >>
                               ELSE << >>]

ShapeSeqs(fa) ==
  { s \in [1..NumSections -> SectionShapes(fa)] : HasRawData(s) }

Images ==
  UNION { { Image(s, fa, full, m[1], m[2]) :
              s \in ShapeSeqs(fa), full \in BOOLEAN,
              m \in { <<TRUE, TRUE>>, <<FALSE, TRUE>>, <<TRUE, FALSE>> } } :
          fa \in FileAlignments }

\* ------------------------------------------------------------- section lookup
NoSection == 0

find_section(name, secs) ==
  IF \E j \in 1..Len(secs) : secs[j].Name = name
  THEN CHOOSE j \in 1..Len(secs) :
         /\ secs[j].Name = name
         /\ \A h \in 1..(j - 1) : secs[h].Name # name
  ELSE NoSection

InSection(rva, s) ==
  /\ rva >= s.VirtualAddress
  /\ rva < s.VirtualAddress + RealSize(s.SizeOfRawData, s.VirtualSize)

rva_to_section(rva, secs) ==
  IF \E j \in 1..Len(secs) : InSection(rva, secs[j])
  THEN CHOOSE j \in 1..Len(secs) :
         /\ InSection(rva, secs[j])
         /\ \A h \in 1..(j - 1) : ~InSection(rva, secs[h])
  ELSE NoSection

RVA_TO_SECTION_OFFSET(rva, s) == Wrap(rva - s.VirtualAddress)
RVA_TO_OFFSET(rva, s) == Wrap(s.PointerToRawData + Wrap(rva - s.VirtualAddress))

\* ------------------------------------------------------------- state
VARIABLES
  pc,                 \* where unexec is
  in_file,            \* the mapped source image
  handles,            \* file handles, mappings and views currently held
  exit_code,          \* status the process ended with, -1 while it runs
  exit_msg,           \* the diagnostic printed before exit
  my_begdata, my_edata, my_begbss, my_endbss,
  my_begbss_static, my_endbss_static,       \* symbol addresses, 0 until read
  data_section, data_start, data_size,
  bss_section, bss_start, bss_size, extra_bss_size,
  bss_section_static, bss_start_static, bss_size_static, extra_bss_size_static,
  out_file,           \* the output file: [state, size (mapped), final (p_outfile->size)]
  dst_cells,          \* the output view, cell by cell
  dst,                \* the write cursor, as an offset into the view
  i,                  \* section the copier is at
  dst_nt_header,      \* header fields of the output
  dst_section,        \* section table of the output
  dumps,              \* every COPY_PROC_CHUNK done: <<region, first RVA, cells>>
  pfnCheckSumMappedFile,  \* what GetProcAddress returned, "unset" before
  movemail,           \* the state of a run of movemail (lib-src/movemail.c)
  addpm,              \* the state of a run of addpm (nt/addpm.c)
  w32reg,             \* a call of w32_get_string_resource (src/w32reg.c)
  lockers             \* movemail processes contending for one <inbox>.lock

symbols  == << my_begdata, my_edata, my_begbss, my_endbss,
               my_begbss_static, my_endbss_static >>
cached   == << data_section, data_start, data_size,
               bss_section, bss_start, bss_size, extra_bss_size,
               bss_section_static, bss_start_static, bss_size_static,
               extra_bss_size_static >>
output   == << out_file, dst_cells, dst, i, dst_nt_header, dst_section, dumps >>
unexec   == << pc, in_file, handles, exit_code, exit_msg, symbols, cached, output,
               pfnCheckSumMappedFile >>
others   == << movemail, addpm, w32reg, lockers >>
vars     == << unexec, others >>

\* The programs that are not running.
NotRun == [pc |-> "not run"]


\* Cells the output view can hold in the model (more than any run writes).
ViewCells == HeaderLen + 1 + NumSections * 8 + TrailerLen + 4

NoHeader == [SizeOfHeaders |-> 0, SizeOfInitializedData |-> 0,
             SizeOfUninitializedData |-> 0, PointerToSymbolTable |-> 0,
             CheckSum |-> 0]

\* Nothing opened, analysed or copied yet.
Fresh ==
  /\ handles = {}
  /\ exit_code = -1
  /\ exit_msg = [text |-> "", file |-> ""]
  /\ my_begdata = 0 /\ my_edata = 0 /\ my_begbss = 0 /\ my_endbss = 0
  /\ my_begbss_static = 0 /\ my_endbss_static = 0
  /\ data_section = NoSection /\ data_start = 0 /\ data_size = 0
  /\ bss_section = NoSection /\ bss_start = 0 /\ bss_size = 0 /\ extra_bss_size = 0
  /\ bss_section_static = NoSection /\ bss_start_static = 0
  /\ bss_size_static = 0 /\ extra_bss_size_static = 0
  /\ out_file = [state |-> "untouched", size |-> 0, final |-> 0]
  /\ dst_cells = [o \in 0..(ViewCells - 1) |-> ZeroByte]
  /\ dst = 0
  /\ i = 0
  /\ dst_nt_header = NoHeader
  /\ dst_section = << >>
  /\ dumps = << >>
  /\ pfnCheckSumMappedFile = "unset"

Init ==
  /\ pc = "open_input_file"
  /\ in_file \in Images
  /\ Fresh
  /\ movemail = NotRun
  /\ addpm = NotRun
  /\ w32reg = NotRun
  /\ lockers = NotRun

\* unexec is not the program under study.
UnexecNotRun ==
  /\ pc = "not run"
  /\ in_file = NotRun
  /\ Fresh

Exit(text, file) ==
  /\ pc' = "exited"
  /\ exit_code' = 1
  /\ exit_msg' = [text |-> text, file |-> file]

\* unexec, lines 626-632: open and map the running executable.
OpenInputFile ==
  /\ pc = "open_input_file"
  /\ \/ /\ handles' = handles \cup {"in.file", "in.mapping", "in.view"}
        /\ pc' = "get_section_info"
        /\ UNCHANGED << exit_code, exit_msg >>
     \/ /\ Exit("Failed to open", in_file.name)
        /\ UNCHANGED handles
  /\ UNCHANGED << others, in_file, pfnCheckSumMappedFile, symbols, cached, output >>

\* ------------------------------------------------------------- get_section_info
\* The addresses a pair of boundary symbols can have.  The first lies in a
\* section that holds variables (not code); the second lies 1..MaxLen cells
\* after it, or at the start of a later section.
SymbolPairs(secs) ==
  UNION { { << secs[j].VirtualAddress + off, secs[j].VirtualAddress + off + len >> :
              off \in 0..MaxLen, len \in 1..MaxLen }
          \cup { << secs[j].VirtualAddress + off, secs[h].VirtualAddress >> :
                   off \in 0..MaxLen, h \in (j + 1)..Len(secs) } :
          j \in { h \in 1..Len(secs) : "CODE" \notin secs[h].Characteristics } }

ValidPairs(secs) ==
  { p \in SymbolPairs(secs) : rva_to_section(p[1], secs) # NoSection }

\* my_begdata and my_edata are initialized variables: both have raw data.
InRawData(rva, secs) ==
  \E j \in 1..Len(secs) :
    rva >= secs[j].VirtualAddress /\ rva < secs[j].VirtualAddress + secs[j].SizeOfRawData

DataPairs(secs) ==
  { p \in SymbolPairs(secs) : InRawData(p[1], secs) /\ InRawData(p[2], secs) }

ALPHA_BUILD == FALSE

Cached0 ==
  [msg |-> "", file |-> "",
   my_begdata |-> 0, my_edata |-> 0, my_begbss |-> 0, my_endbss |-> 0,
   my_begbss_static |-> 0, my_endbss_static |-> 0,
   data_section |-> NoSection, data_start |-> 0, data_size |-> 0,
   bss_section |-> NoSection, bss_start |-> 0, bss_size |-> 0, extra_bss_size |-> 0,
   bss_section_static |-> NoSection, bss_start_static |-> 0,
   bss_size_static |-> 0, extra_bss_size_static |-> 0]

\* Lines 263-282: the data region, by section name or from the symbols.
DataInfo(c, nt, p) ==
  LET named == find_section("EMDATA", nt.sections)
  IN IF named # NoSection
     THEN [c EXCEPT !.data_section = named,
                    !.data_start = nt.sections[named].VirtualAddress,
                    !.data_size = nt.sections[named].VirtualSize]
     ELSE LET c1 == [c EXCEPT !.my_begdata = p[1], !.my_edata = p[2],
                              !.data_start = p[1],
                              !.data_size = Wrap(p[2] - p[1]),
                              !.data_section = rva_to_section(p[1], nt.sections)]
          IN IF c1.data_section # rva_to_section(p[2], nt.sections)
             THEN [c1 EXCEPT !.msg = "Initialized data is not in a single section"]
             ELSE c1

\* BssInfo without the test that both ends lie in one section.
BssInfo_NoCheck(c, nt, p) ==
  LET c1 == [c EXCEPT !.my_begbss = p[1], !.my_endbss = p[2],
                      !.bss_start = p[1],
                      !.bss_size = Wrap(p[2] - p[1]),
                      !.bss_section = rva_to_section(p[1], nt.sections)]
  IN [c1 EXCEPT !.extra_bss_size =
        Wrap(ROUND_UP(RVA_TO_SECTION_OFFSET(p[2], nt.sections[c1.bss_section]),
                      nt.FileAlignment)
             - nt.sections[c1.bss_section].SizeOfRawData)]

\* Lines 295-307: the bss region and how much its section's raw data grows.
BssInfo(c, nt, p) ==
  LET c1 == [c EXCEPT !.my_begbss = p[1], !.my_endbss = p[2],
                      !.bss_start = p[1],
                      !.bss_size = Wrap(p[2] - p[1]),
                      !.bss_section = rva_to_section(p[1], nt.sections)]
  IN IF c1.bss_section # rva_to_section(p[2], nt.sections)
     THEN [c1 EXCEPT !.msg = "Uninitialized data is not in a single section"]
     ELSE [c1 EXCEPT !.extra_bss_size =
             Wrap(ROUND_UP(RVA_TO_SECTION_OFFSET(p[2], nt.sections[c1.bss_section]),
                           nt.FileAlignment)
                  - nt.sections[c1.bss_section].SizeOfRawData)]

\* Lines 309-321: the same for the static bss region.
BssStaticInfo(c, nt, p) ==
  LET c1 == [c EXCEPT !.my_begbss_static = p[1], !.my_endbss_static = p[2],
                      !.bss_start_static = p[1],
                      !.bss_size_static = Wrap(p[2] - p[1]),
                      !.bss_section_static = rva_to_section(p[1], nt.sections)]
  IN IF c1.bss_section_static # rva_to_section(p[2], nt.sections)
     THEN [c1 EXCEPT !.msg = "Uninitialized static data is not in a single section"]
     ELSE [c1 EXCEPT !.extra_bss_size_static =
             Wrap(ROUND_UP(RVA_TO_SECTION_OFFSET(p[2], nt.sections[c1.bss_section_static]),
                           nt.FileAlignment)
                  - nt.sections[c1.bss_section_static].SizeOfRawData)]

\* Lines 329-338.
Overlap(c) ==
  \/ ALPHA_BUILD
  \/ IF c.bss_start < c.bss_start_static
     THEN c.bss_start_static < Wrap(c.bss_start + c.bss_size)
     ELSE c.bss_start < Wrap(c.bss_start_static + c.bss_size_static)

\* CombineBss that leaves the static region enabled.
CombineBss_KeepsStatic(c) ==
  IF ~Overlap(c) THEN c
  ELSE IF c.bss_section # c.bss_section_static
  THEN [c EXCEPT !.msg = "BSS data not in a single section"]
  ELSE LET start == Min2(c.bss_start, c.bss_start_static)
       IN [c EXCEPT !.bss_start = start,
                    !.bss_size = Wrap(Max2(c.my_endbss, c.my_endbss_static) - start),
                    !.extra_bss_size = Max2(c.extra_bss_size, c.extra_bss_size_static),
                    !.extra_bss_size_static = 0]

\* Lines 339-351: combine the bss regions into one if they overlap.
CombineBss(c) ==
  IF ~Overlap(c) THEN c
  ELSE IF c.bss_section # c.bss_section_static
  THEN [c EXCEPT !.msg = "BSS data not in a single section"]
  ELSE LET start == Min2(c.bss_start, c.bss_start_static)
       IN [c EXCEPT !.bss_start = start,
                    !.bss_size = Wrap(Max2(c.my_endbss, c.my_endbss_static) - start),
                    !.bss_section_static = NoSection,
                    !.extra_bss_size = Max2(c.extra_bss_size, c.extra_bss_size_static),
                    !.extra_bss_size_static = 0]

Commit(c) ==
  /\ my_begdata' = c.my_begdata /\ my_edata' = c.my_edata
  /\ my_begbss' = c.my_begbss /\ my_endbss' = c.my_endbss
  /\ my_begbss_static' = c.my_begbss_static
  /\ my_endbss_static' = c.my_endbss_static
  /\ data_section' = c.data_section /\ data_start' = c.data_start
  /\ data_size' = c.data_size
  /\ bss_section' = c.bss_section /\ bss_start' = c.bss_start
  /\ bss_size' = c.bss_size /\ extra_bss_size' = c.extra_bss_size
  /\ bss_section_static' = c.bss_section_static
  /\ bss_start_static' = c.bss_start_static
  /\ bss_size_static' = c.bss_size_static
  /\ extra_bss_size_static' = c.extra_bss_size_static
  /\ IF c.msg = ""
     THEN pc' = "open_output_file" /\ UNCHANGED << exit_code, exit_msg >>
     ELSE Exit(c.msg, c.file)

\* HeaderCheck that looks at the DOS magic number only.
HeaderCheck_MagicOnly(c, f) ==
  IF ~f.e_magic_ok
  THEN [c EXCEPT !.msg = "Unknown EXE header", !.file = f.name]
  ELSE c

\* Lines 223-244: the DOS magic number and the NT signature.
HeaderCheck(c, f) ==
  IF ~f.e_magic_ok
  THEN [c EXCEPT !.msg = "Unknown EXE header", !.file = f.name]
  ELSE IF ~f.Signature_ok
  THEN [c EXCEPT !.msg = "Invalid IMAGE_NT_SIGNATURE", !.file = f.name]
  ELSE c

\* get_section_info, lines 216-352.
GetSectionInfo ==
  /\ pc = "get_section_info"
  /\ IF HeaderCheck(Cached0, in_file).msg # ""
     THEN Commit(HeaderCheck(Cached0, in_file))
     ELSE \E pd \in IF find_section("EMDATA", in_file.sections) # NoSection
                     THEN { <<0, 0>> } ELSE DataPairs(in_file.sections) :
            LET c1 == DataInfo(Cached0, in_file, pd)
            IN IF c1.msg # "" THEN Commit(c1)
               ELSE \E pb \in ValidPairs(in_file.sections) :
                      LET c2 == BssInfo(c1, in_file, pb)
                      IN IF c2.msg # "" THEN Commit(c2)
                         ELSE \E ps \in ValidPairs(in_file.sections) :
                                LET c3 == BssStaticInfo(c2, in_file, ps)
                                IN IF c3.msg # "" THEN Commit(c3)
                                   ELSE Commit(CombineBss(c3))
  /\ UNCHANGED << others, in_file, pfnCheckSumMappedFile, handles, output >>

\* ------------------------------------------------------------- open_output_file
\* unexec, lines 637-647, and open_output_file, lines 73-109.  The size is an
\* unsigned long.  CreateFileA, CreateFileMapping or MapViewOfFile may fail.
OutputSize == Wrap(in_file.size + extra_bss_size + extra_bss_size_static)

OpenOutputFile ==
  /\ pc = "open_output_file"
  /\ \E got \in {"none", "file", "mapping", "view"} :
       /\ out_file' = [state |-> CASE got = "none"    -> "deleted"
                                   [] got = "file"    -> "created"
                                   [] got = "mapping" -> "sized"
                                   [] got = "view"    -> "mapped",
                       size  |-> IF got = "view" THEN OutputSize ELSE 0,
                       final |-> 0]
       /\ handles' = handles \cup
            CASE got = "none"    -> {}
              [] got = "file"    -> {"out.file"}
              [] got = "mapping" -> {"out.file", "out.mapping"}
              [] got = "view"    -> {"out.file", "out.mapping", "out.view"}
       /\ IF got = "view"
          THEN pc' = "copy_headers" /\ UNCHANGED << exit_code, exit_msg >>
          ELSE Exit("Failed to open", "emacs.exe")
  /\ UNCHANGED << others, in_file, pfnCheckSumMappedFile, symbols, cached, dst_cells, dst, i,
                  dst_nt_header, dst_section, dumps >>

\* ------------------------------------------------------------- relocate_offset
\* Last section at or before k with a non-zero PointerToRawData.
LastWithRaw(secs, k) ==
  CHOOSE j \in 1..k :
    /\ secs[j].PointerToRawData # 0
    /\ \A h \in (j + 1)..k : secs[h].PointerToRawData = 0

\* relocate_from that never advances dst_section.
RECURSIVE relocate_from_NoDstAdvance(_, _, _, _)
relocate_from_NoDstAdvance(offset, src, dstt, j) ==
  IF offset >= src[j].PointerToRawData
  THEN IF offset < src[j].PointerToRawData + src[j].SizeOfRawData
       THEN Wrap(offset + Wrap(dstt[1].PointerToRawData - src[j].PointerToRawData))
       ELSE IF j = Len(src)
       THEN LET d == LastWithRaw(dstt, Len(dstt))
                q == LastWithRaw(src, j)
            IN Wrap(offset
                    + (dstt[d].PointerToRawData + dstt[d].SizeOfRawData)
                    - (src[q].PointerToRawData + src[q].SizeOfRawData))
       ELSE relocate_from_NoDstAdvance(offset, src, dstt, j + 1)
  ELSE Wrap(offset + Wrap(dstt[1].PointerToRawData - src[j].PointerToRawData))

\* relocate_from whose trailing case takes the last destination section as it
\* is, without stepping back over sections with no raw data.
RECURSIVE relocate_from_NoWalkBack(_, _, _, _)
relocate_from_NoWalkBack(offset, src, dstt, j) ==
  IF offset >= src[j].PointerToRawData
  THEN IF offset < src[j].PointerToRawData + src[j].SizeOfRawData
       THEN Wrap(offset + Wrap(dstt[j].PointerToRawData - src[j].PointerToRawData))
       ELSE IF j = Len(src)
       THEN LET d == Len(dstt)
                q == LastWithRaw(src, j)
            IN Wrap(offset
                    + (dstt[d].PointerToRawData + dstt[d].SizeOfRawData)
                    - (src[q].PointerToRawData + src[q].SizeOfRawData))
       ELSE relocate_from_NoWalkBack(offset, src, dstt, j + 1)
  ELSE Wrap(offset + Wrap(dstt[j].PointerToRawData - src[j].PointerToRawData))

RECURSIVE relocate_from(_, _, _, _)
relocate_from(offset, src, dstt, j) ==
  IF offset >= src[j].PointerToRawData
  THEN IF offset < src[j].PointerToRawData + src[j].SizeOfRawData
       THEN Wrap(offset + Wrap(dstt[j].PointerToRawData - src[j].PointerToRawData))
       ELSE IF j = Len(src)
       THEN LET d == LastWithRaw(dstt, Len(dstt))
                q == LastWithRaw(src, j)
            IN Wrap(offset
                    + (dstt[d].PointerToRawData + dstt[d].SizeOfRawData)
                    - (src[q].PointerToRawData + src[q].SizeOfRawData))
       ELSE relocate_from(offset, src, dstt, j + 1)
  ELSE Wrap(offset + Wrap(dstt[j].PointerToRawData - src[j].PointerToRawData))

\* relocate_offset, lines 157-189.
relocate_offset(offset, src, dstt) == relocate_from(offset, src, dstt, 1)

\* ------------------------------------------------------------- the copier
\* memcpy of n cells to offset at of the view; F(k) is the k-th cell copied.
CopyTo(cells, at, n, F(_)) ==
  [o \in DOMAIN cells |-> IF o >= at /\ o < at + n THEN F(o - at) ELSE cells[o]]

\* A write of n cells at offset at leaves the mapped view of the output.
Outside(at, n) == n > 0 /\ at + n > out_file.size

\* A step that touches memory outside the view either faults or goes on.
Crash ==
  /\ pc' = "crashed"
  /\ exit_code' = 128
  /\ UNCHANGED << exit_msg, output >>

\* The cursor after the headers, left where the section table ends.
HeadersEnd_NoAlign(fa) == HeaderLen

\* Lines 444-446: the cursor after the headers, rounded up to the alignment.
HeadersEnd(fa) == ROUND_UP(HeaderLen, fa)

\* Lines 427-447: headers and section table, then align and set SizeOfHeaders.
CopyHeaders ==
  /\ pc = "copy_headers"
  /\ LET fa  == in_file.FileAlignment
         end == HeadersEnd(fa)
         c1  == CopyTo(dst_cells, 0, HeaderLen, LAMBDA k : HdrByte(k))
         c2  == CopyTo(c1, HeaderLen, end - HeaderLen, LAMBDA k : ZeroByte)
     IN \/ /\ Outside(0, end)
           /\ Crash
        \/ /\ dst_cells' = c2
           /\ dst' = end
           /\ dst_nt_header' =
                [SizeOfHeaders           |-> end,
                 SizeOfInitializedData   |-> in_file.SizeOfInitializedData,
                 SizeOfUninitializedData |-> in_file.SizeOfUninitializedData,
                 PointerToSymbolTable    |-> in_file.PointerToSymbolTable,
                 CheckSum                |-> in_file.CheckSum]
           /\ dst_section' = in_file.sections
           /\ i' = 1
           /\ pc' = "copy_section"
           /\ UNCHANGED << exit_code, exit_msg, out_file, dumps >>
  /\ UNCHANGED << others, in_file, pfnCheckSumMappedFile, handles, symbols, cached >>

\* DumpBss that does not round the end of the region up to the alignment.
DumpBss_NoRoundUp(r, save, fa, what, start, size) ==
  LET at  == save + RVA_TO_SECTION_OFFSET(start, r.sec)
      end == at + size
      new == Max2(end, save + r.sec.SizeOfRawData)
  IN [cells |-> CopyTo(r.cells, at, size, LAMBDA k : MemByte(start + k)),
      dst   |-> new,
      sec   |-> [r.sec EXCEPT !.PointerToRawData = save,
                              !.SizeOfRawData = new - save,
                              !.Characteristics = (@ \ {"UNINIT"}) \cup {"INIT"}],
      dumps |-> Append(r.dumps, [what |-> what, rva |-> start, size |-> size, at |-> at]),
      out   |-> r.out \/ Outside(at, size)]

\* DumpBss that takes the region to end one cell later than it does.
DumpBss_EndInclusive(r, save, fa, what, start, size) ==
  LET at  == save + RVA_TO_SECTION_OFFSET(start, r.sec)
      end == ROUND_UP(at + size + 1, fa)
      new == Max2(end, save + r.sec.SizeOfRawData)
  IN [cells |-> CopyTo(r.cells, at, size, LAMBDA k : MemByte(start + k)),
      dst   |-> new,
      sec   |-> [r.sec EXCEPT !.PointerToRawData = save,
                              !.SizeOfRawData = new - save,
                              !.Characteristics = (@ \ {"UNINIT"}) \cup {"INIT"}],
      dumps |-> Append(r.dumps, [what |-> what, rva |-> start, size |-> size, at |-> at]),
      out   |-> r.out \/ Outside(at, size)]

\* DumpBss that takes the end of the region as the new cursor, without max.
DumpBss_NoMax(r, save, fa, what, start, size) ==
  LET at  == save + RVA_TO_SECTION_OFFSET(start, r.sec)
      new == ROUND_UP(at + size, fa)
  IN [cells |-> CopyTo(r.cells, at, size, LAMBDA k : MemByte(start + k)),
      dst   |-> new,
      sec   |-> [r.sec EXCEPT !.PointerToRawData = save,
                              !.SizeOfRawData = new - save,
                              !.Characteristics = (@ \ {"UNINIT"}) \cup {"INIT"}],
      dumps |-> Append(r.dumps, [what |-> what, rva |-> start, size |-> size, at |-> at]),
      out   |-> r.out \/ Outside(at, size)]

\* Lines 480-495 and 496-511: dump one bss region into the section starting at
\* save.  r = [cells, dst, sec, dumps, out] is the copier's state so far.
DumpBss(r, save, fa, what, start, size) ==
  LET at  == save + RVA_TO_SECTION_OFFSET(start, r.sec)
      end == ROUND_UP(at + size, fa)
      new == Max2(end, save + r.sec.SizeOfRawData)
  IN [cells |-> CopyTo(r.cells, at, size, LAMBDA k : MemByte(start + k)),
      dst   |-> new,
      sec   |-> [r.sec EXCEPT !.PointerToRawData = save,
                              !.SizeOfRawData = new - save,
                              !.Characteristics = (@ \ {"UNINIT"}) \cup {"INIT"}],
      dumps |-> Append(r.dumps, [what |-> what, rva |-> start, size |-> size, at |-> at]),
      out   |-> r.out \/ Outside(at, size)]

\* Lines 472-479: dump the data region.
DumpData(r, save) ==
  LET at == save + RVA_TO_SECTION_OFFSET(data_start, r.sec)
  IN [cells |-> CopyTo(r.cells, at, data_size, LAMBDA k : MemByte(data_start + k)),
      dst   |-> save + r.sec.SizeOfRawData,
      sec   |-> r.sec,
      dumps |-> Append(r.dumps, [what |-> "data", rva |-> data_start,
                                 size |-> data_size, at |-> at]),
      out   |-> r.out \/ Outside(at, data_size)]

\* CopyRaw that leaves the section's PointerToRawData as it was in the source.
CopyRaw_KeepsPointer(save, fa) ==
  LET s   == in_file.sections[i]
      end == ROUND_UP(save + s.SizeOfRawData, fa)
      c1  == CopyTo(dst_cells, save, s.SizeOfRawData,
                    LAMBDA k : SrcByte(s.PointerToRawData + k))
  IN [cells |-> CopyTo(c1, save + s.SizeOfRawData, end - (save + s.SizeOfRawData),
                       LAMBDA k : ZeroByte),
      dst   |-> end,
      sec   |-> dst_section[i],
      dumps |-> dumps,
      out   |-> Outside(save, end - save)]

\* Lines 456-469: the section's original raw data, padded with zeros.
CopyRaw(save, fa) ==
  LET s   == in_file.sections[i]
      end == ROUND_UP(save + s.SizeOfRawData, fa)
      c1  == CopyTo(dst_cells, save, s.SizeOfRawData,
                    LAMBDA k : SrcByte(s.PointerToRawData + k))
  IN [cells |-> CopyTo(c1, save + s.SizeOfRawData, end - (save + s.SizeOfRawData),
                       LAMBDA k : ZeroByte),
      dst   |-> end,
      sec   |-> IF dst_section[i].PointerToRawData # 0
                THEN [dst_section[i] EXCEPT !.PointerToRawData = save]
                ELSE dst_section[i],
      dumps |-> dumps,
      out   |-> Outside(save, end - save)]

\* One turn of the loop of lines 449-518.
SectionResult ==
  LET fa   == in_file.FileAlignment
      save == dst
      r0   == CopyRaw(save, fa)
      r1   == IF i = data_section THEN DumpData(r0, save) ELSE r0
      r2   == IF i = bss_section
              THEN DumpBss(r1, save, fa, "bss", bss_start, bss_size) ELSE r1
      r3   == IF i = bss_section_static
              THEN DumpBss(r2, save, fa, "bss_static", bss_start_static, bss_size_static)
              ELSE r2
  IN [r3 EXCEPT !.dst = ROUND_UP(r3.dst, fa)]

CopySection ==
  /\ pc = "copy_section"
  /\ LET r == SectionResult
     IN \/ /\ r.out
           /\ Crash
        \/ /\ dst_cells' = r.cells
           /\ dst' = r.dst
           /\ dst_section' = [dst_section EXCEPT ![i] = r.sec]
           /\ dumps' = r.dumps
           /\ i' = i + 1
           /\ pc' = IF i = in_file.NumberOfSections THEN "copy_trailer" ELSE "copy_section"
           /\ UNCHANGED << exit_code, exit_msg, out_file, dst_nt_header >>
  /\ UNCHANGED << others, in_file, pfnCheckSumMappedFile, handles, symbols, cached >>

\* Lines 520-532: whatever follows the last section with raw data.
TrailerStart ==
  LET s == in_file.sections[LastWithRaw(in_file.sections, in_file.NumberOfSections)]
  IN ROUND_UP(s.PointerToRawData + s.SizeOfRawData, in_file.FileAlignment)

CopyTrailer ==
  /\ pc = "copy_trailer"
  /\ LET offset == TrailerStart
         count  == Wrap(in_file.size - offset)
     IN \/ /\ Outside(dst, count)
           /\ Crash
        \/ /\ dst_cells' = CopyTo(dst_cells, dst, count, LAMBDA k : SrcByte(offset + k))
           /\ dst' = dst + count
           /\ out_file' = [out_file EXCEPT !.final = dst + count]
           /\ pc' = "patch"
           /\ UNCHANGED << exit_code, exit_msg, i, dst_nt_header, dst_section, dumps >>
  /\ UNCHANGED << others, in_file, pfnCheckSumMappedFile, handles, symbols, cached >>

\* ------------------------------------------------------------- patching
\* ADJUST_OFFSET that relocates a zero offset like any other.
ADJUST_OFFSET_Unguarded(var) ==
  relocate_offset(var, in_file.sections, dst_section)

\* ADJUST_OFFSET that relocates an offset it has already relocated.
ADJUST_OFFSET_Twice(var) ==
  IF var # 0
  THEN relocate_offset(relocate_offset(var, in_file.sections, dst_section),
                       in_file.sections, dst_section)
  ELSE var

\* ADJUST_OFFSET, lines 538-542.
ADJUST_OFFSET(var) ==
  IF var # 0 THEN relocate_offset(var, in_file.sections, dst_section) ELSE var

\* DataSizes summed over the source's section table.
RECURSIVE DataSizes_FromSource(_, _, _)
DataSizes_FromSource(secs, fa, j) ==
  IF j = 0 THEN [init |-> 0, uninit |-> 0]
  ELSE LET t == DataSizes_FromSource(secs, fa, j - 1)
           s == in_file.sections[j]
       IN IF "INIT" \in s.Characteristics
          THEN [t EXCEPT !.init = Wrap(@ + ROUND_UP(s.VirtualSize, fa))]
          ELSE IF "UNINIT" \in s.Characteristics
          THEN [t EXCEPT !.uninit = Wrap(@ + ROUND_UP(s.VirtualSize, fa))]
          ELSE t

\* Lines 544-555: the totals of initialized and uninitialized data.
RECURSIVE DataSizes(_, _, _)
DataSizes(secs, fa, j) ==
  IF j = 0 THEN [init |-> 0, uninit |-> 0]
  ELSE LET t == DataSizes(secs, fa, j - 1)
       IN IF "INIT" \in secs[j].Characteristics
          THEN [t EXCEPT !.init = Wrap(@ + ROUND_UP(secs[j].VirtualSize, fa))]
          ELSE IF "UNINIT" \in secs[j].Characteristics
          THEN [t EXCEPT !.uninit = Wrap(@ + ROUND_UP(secs[j].VirtualSize, fa))]
          ELSE t

\* Where the source keeps its debug directory: file offset and RVA of entry 1.
SrcDebugSection == rva_to_section(in_file.DebugVA, in_file.sections)
SrcDebugOffset == RVA_TO_OFFSET(in_file.DebugVA, in_file.sections[SrcDebugSection])

\* PointerToRawData of the debug directory entry a cell of the view holds.
DebugPointer(cell) ==
  LET n == Len(in_file.DebugEntries)
  IN CASE cell.k = "dbg" -> cell.v
       [] cell.k = "src" /\ SrcDebugSection # NoSection
            /\ cell.v >= SrcDebugOffset /\ cell.v < SrcDebugOffset + n
            -> in_file.DebugEntries[cell.v - SrcDebugOffset + 1]
       [] cell.k = "mem" /\ cell.v >= in_file.DebugVA /\ cell.v < in_file.DebugVA + n
            -> in_file.DebugEntries[cell.v - in_file.DebugVA + 1]
       [] OTHER -> 0

\* Lines 561-577: the debug directory of the output.
DstDebugSection == rva_to_section(in_file.DebugVA, dst_section)
DstDebugOffset == RVA_TO_OFFSET(in_file.DebugVA, dst_section[DstDebugSection])

PatchDebug(cells) ==
  IF DstDebugSection = NoSection THEN cells
  ELSE [o \in DOMAIN cells |->
          IF /\ o >= DstDebugOffset
             /\ o < DstDebugOffset + Len(in_file.DebugEntries)
             /\ DebugPointer(cells[o]) # 0
          THEN DbgEntry(ADJUST_OFFSET(DebugPointer(cells[o])))
          ELSE cells[o]]

\* Lines 534-577.
PatchHeaders ==
  /\ pc = "patch"
  /\ LET t == DataSizes(dst_section, in_file.FileAlignment, Len(dst_section))
     IN \/ /\ DstDebugSection # NoSection
           /\ Outside(DstDebugOffset, Len(in_file.DebugEntries))
           /\ Crash
        \/ /\ dst_nt_header' =
                [dst_nt_header EXCEPT
                   !.SizeOfInitializedData = t.init,
                   !.SizeOfUninitializedData = t.uninit,
                   !.PointerToSymbolTable = ADJUST_OFFSET(@)]
           /\ dst_section' =
                [j \in DOMAIN dst_section |->
                   [dst_section[j] EXCEPT !.PointerToLinenumbers = ADJUST_OFFSET(@)]]
           /\ dst_cells' = PatchDebug(dst_cells)
           /\ pc' = "checksum"
           /\ UNCHANGED << exit_code, exit_msg, out_file, dst, i, dumps >>
  /\ UNCHANGED << others, in_file, pfnCheckSumMappedFile, handles, symbols, cached >>

\* Lines 662-676: the CheckSum field is zeroed, then set to the checksum of
\* the first p_outfile->size cells of the view if imagehlp.dll provides
\* CheckSumMappedFile.
CheckSumField_KeepsOld(pfn) ==
  IF pfn # "NULL"
  THEN CheckSumMappedFile(dst_cells, out_file.final)
  ELSE dst_nt_header.CheckSum

CheckSumField(pfn) ==
  IF pfn # "NULL"
  THEN CheckSumMappedFile(dst_cells, out_file.final)
  ELSE 0

\* unexec, lines 651-678.
Checksum ==
  /\ pc = "checksum"
  /\ \E pfn \in {"NULL", "CheckSumMappedFile"} :
       /\ pfnCheckSumMappedFile' = pfn
       /\ \/ /\ pfn # "NULL"
             /\ Outside(0, out_file.final)
             /\ Crash
          \/ /\ dst_nt_header' = [dst_nt_header EXCEPT !.CheckSum = CheckSumField(pfn)]
             /\ pc' = "close_file_data"
             /\ UNCHANGED << exit_code, exit_msg, out_file, dst_cells, dst, i,
                             dst_section, dumps >>
  /\ UNCHANGED << others, in_file, handles, symbols, cached >>

\* unexec, lines 680-681.
CloseFiles ==
  /\ pc = "close_file_data"
  /\ handles' = {}
  /\ pc' = "done"
  /\ out_file' = [out_file EXCEPT !.state = "closed"]
  /\ UNCHANGED << others, in_file, pfnCheckSumMappedFile, exit_code, exit_msg, symbols, cached, dst_cells, dst, i,
                  dst_nt_header, dst_section, dumps >>

Next ==
  \/ OpenInputFile
  \/ GetSectionInfo
  \/ OpenOutputFile
  \/ CopyHeaders
  \/ CopySection
  \/ CopyTrailer
  \/ PatchHeaders
  \/ Checksum
  \/ CloseFiles

Spec == Init /\ [][Next]_vars

\* ------------------------------------------------------------- properties
\* copy_executable_and_dump_data has returned.
Copied == pc \in {"checksum", "close_file_data", "done"}
\* The copy loop and the trailer copy are over (line 532 reached).
Laid == pc \in {"patch", "checksum", "close_file_data", "done"}

Src == in_file.sections
Sections == 1..in_file.NumberOfSections
Owners == ({data_section, bss_section, bss_section_static}) \ {NoSection}
BssOwners == ({bss_section, bss_section_static}) \ {NoSection}

\* Source offsets of the debug directory entries whose pointer is in use.
PatchedDebugOffsets ==
  IF SrcDebugSection = NoSection THEN {}
  ELSE { SrcDebugOffset + e - 1 : e \in { n \in 1..Len(in_file.DebugEntries) :
                                           in_file.DebugEntries[n] # 0 } }

\* The cell is the source's cell at offset o: as copied, or, for a debug
\* directory entry, with its pointer relocated by the patcher.
FromSource(cell, o) ==
  \/ cell = SrcByte(o)
  \/ /\ o \in PatchedDebugOffsets
     /\ cell = DbgEntry(relocate_offset(in_file.DebugEntries[o - SrcDebugOffset + 1],
                                        Src, dst_section))

\* The region [start, start + size) owned by section sec is in the output.
RegionInOutput(sec, start, size) ==
  \A k \in 0..(size - 1) :
    dst_cells[dst_section[sec].PointerToRawData
              + (start - Src[sec].VirtualAddress) + k] = MemByte(start + k)

VerbatimInOutput(sec) ==
  \A k \in 0..(Src[sec].SizeOfRawData - 1) :
    FromSource(dst_cells[dst_section[sec].PointerToRawData + k],
               Src[sec].PointerToRawData + k)

\* C1: after copy_executable_and_dump_data, the output holds the in-memory
\* cells of the data region, of the bss region and of the static bss region
\* (when it was not merged) at the region's place in its section, and every
\* section that owns no region holds its raw data as in the source.
C1_RegionsDumped ==
  Copied =>
    /\ data_section # NoSection => RegionInOutput(data_section, data_start, data_size)
    /\ RegionInOutput(bss_section, bss_start, bss_size)
    /\ bss_section_static # NoSection =>
         RegionInOutput(bss_section_static, bss_start_static, bss_size_static)
    /\ \A j \in Sections \ Owners : VerbatimInOutput(j)

RawRange(sec) ==
  { o \in 0..(in_file.size - 1) :
      /\ o >= Src[sec].PointerToRawData
      /\ o < Src[sec].PointerToRawData + Src[sec].SizeOfRawData }
Trailing == { o \in 0..(in_file.size - 1) : o >= TrailerStart }
Growth(sec) == dst_section[sec].SizeOfRawData - Src[sec].SizeOfRawData
TheBssOwner == CHOOSE b \in BssOwners : TRUE

\* C2: when exactly one section owns bss data and its raw data grows by G (a
\* multiple of FileAlignment, equal to extra_bss_size when that did not wrap),
\* the size the copier ends with is the source size + G, and every later
\* section with raw data starts G further than in the source.
C2_SizeAndShift ==
  (Laid /\ Cardinality(BssOwners) = 1) =>
    LET b == TheBssOwner
        G == Growth(b)
    IN /\ G >= 0
       /\ G % in_file.FileAlignment = 0
       /\ (bss_section_static = NoSection /\ extra_bss_size < WordMod \div 2)
            => G = extra_bss_size
       /\ out_file.final = in_file.size + G
       /\ \A j \in Sections :
            (j > b /\ Src[j].PointerToRawData # 0) =>
              dst_section[j].PointerToRawData = Src[j].PointerToRawData + G

C2_Witness ==
  /\ Laid
  /\ Cardinality(BssOwners) = 1
  /\ Growth(TheBssOwner) > 0
  /\ \E j \in Sections : j > TheBssOwner /\ Src[j].SizeOfRawData > 0
  /\ in_file.size > TrailerStart

\* C3: once the copy is laid out, relocate_offset maps every source offset in
\* the raw data of a section that owns no region, and every offset in the
\* trailing data, to the output cell that holds that source cell; after a
\* single bss section grown from no raw data to G cells a trailing offset
\* moves by G.
C3_RelocatedSameCell ==
  Laid =>
    /\ \A o \in 0..(in_file.size - 1) :
         (o \in Trailing \/ \E j \in Sections \ Owners : o \in RawRange(j)) =>
           FromSource(dst_cells[relocate_offset(o, Src, dst_section)], o)
    /\ (Cardinality(BssOwners) = 1 /\ Src[TheBssOwner].SizeOfRawData = 0) =>
         \A o \in Trailing :
           relocate_offset(o, Src, dst_section)
             = o + dst_section[TheBssOwner].SizeOfRawData

C3_Witness ==
  /\ Laid
  /\ Trailing # {}
  /\ \E j \in Sections \ Owners :
       /\ RawRange(j) # {}
       /\ dst_section[j].PointerToRawData > Src[j].PointerToRawData

\* C4: relocate_offset maps an offset inside the raw data of source section j
\* into the raw data of output section j.
C4_StaysInSection ==
  Laid =>
    \A j \in Sections : \A o \in RawRange(j) :
      LET r == relocate_offset(o, Src, dst_section)
      IN /\ r >= dst_section[j].PointerToRawData
         /\ r < dst_section[j].PointerToRawData + dst_section[j].SizeOfRawData

C4_Witness ==
  /\ Laid
  /\ \E j \in Sections :
       /\ RawRange(j) # {}
       /\ dst_section[j].PointerToRawData # Src[j].PointerToRawData

SameLayout ==
  \A j \in Sections :
    /\ dst_section[j].PointerToRawData = Src[j].PointerToRawData
    /\ dst_section[j].SizeOfRawData = Src[j].SizeOfRawData

\* C5: if the output's section table has the source's raw offsets and sizes,
\* relocate_offset leaves every offset of the source file where it is.
C5_IdentityWithoutGrowth ==
  (Laid /\ SameLayout) =>
    \A o \in 0..(in_file.size - 1) : relocate_offset(o, Src, dst_section) = o

C5_Witness ==
  /\ Laid /\ SameLayout
  /\ Trailing # {}
  /\ \E j \in Sections : RawRange(j) # {}

\* C6: a line-number pointer, the symbol table pointer or a debug directory
\* entry's pointer that is zero in the source is zero in the output after
\* patching.
C6_ZeroStaysZero ==
  Copied =>
    /\ \A j \in Sections :
         Src[j].PointerToLinenumbers = 0 => dst_section[j].PointerToLinenumbers = 0
    /\ in_file.PointerToSymbolTable = 0 => dst_nt_header.PointerToSymbolTable = 0
    /\ DstDebugSection # NoSection =>
         \A e \in 1..Len(in_file.DebugEntries) :
           in_file.DebugEntries[e] = 0 =>
             DebugPointer(dst_cells[DstDebugOffset + e - 1]) = 0

C6_Witness ==
  /\ Copied
  /\ \E j \in Sections : Growth(j) > 0
  /\ DstDebugSection # NoSection
  /\ \E e \in 1..Len(in_file.DebugEntries) : in_file.DebugEntries[e] = 0
  /\ \E j \in Sections : Src[j].PointerToLinenumbers = 0

\* Offset in the view, rounded up to the alignment, at which a region dumped
\* into the section starting at save ends.
AlignedEnd(save, sec, start, size) ==
  ROUND_UP(save + (start - Src[sec].VirtualAddress) + size, in_file.FileAlignment)

SectionCopied == pc = "copy_section" /\ pc' \in {"copy_section", "copy_trailer"}

Flipped(sec) ==
  /\ "UNINIT" \notin sec.Characteristics
  /\ "INIT" \in sec.Characteristics

\* C7 as stated: after the copier has processed a section that owns the bss or
\* the static bss region, the cursor is the larger of section start + original
\* SizeOfRawData and the aligned end of that region, the section's
\* SizeOfRawData is the cursor less the section start, and its flags say
\* initialized data.
C7_AsStated ==
  [][ (SectionCopied /\ i \in BssOwners) =>
        /\ i = bss_section =>
             dst' = Max2(dst + Src[i].SizeOfRawData,
                         AlignedEnd(dst, i, bss_start, bss_size))
        /\ i = bss_section_static =>
             dst' = Max2(dst + Src[i].SizeOfRawData,
                         AlignedEnd(dst, i, bss_start_static, bss_size_static))
        /\ dst_section'[i].SizeOfRawData = dst' - dst
        /\ Flipped(dst_section'[i]) ]_vars

\* C7, amended: the cursor is the largest of section start + original
\* SizeOfRawData and the aligned ends of the bss regions the section owns (one
\* section can own both); size and flags as stated.
C7_CursorAfterBss ==
  [][ (SectionCopied /\ i \in BssOwners) =>
        LET e1 == IF i = bss_section
                  THEN AlignedEnd(dst, i, bss_start, bss_size) ELSE 0
            e2 == IF i = bss_section_static
                  THEN AlignedEnd(dst, i, bss_start_static, bss_size_static) ELSE 0
        IN /\ dst' = Max2(dst + Src[i].SizeOfRawData, Max2(e1, e2))
           /\ dst_section'[i].SizeOfRawData = dst' - dst
           /\ dst_section'[i].PointerToRawData = dst
           /\ Flipped(dst_section'[i]) ]_vars

\* A section that owns both bss regions, unmerged, has been processed and grew.
C7_Witness ==
  /\ pc \in {"copy_section", "copy_trailer"}
  /\ i > 1
  /\ bss_section = i - 1 /\ bss_section_static = i - 1
  /\ Growth(i - 1) > 0
  /\ dst = dst_section[i - 1].PointerToRawData + dst_section[i - 1].SizeOfRawData

\* get_section_info returned.
Analysed ==
  /\ pc \notin {"open_input_file", "get_section_info"}
  /\ ~(pc = "exited" /\ out_file.state = "untouched")

BssIntersect ==
  /\ my_begbss_static # 0
  /\ Max2(my_begbss, my_begbss_static) < Min2(my_endbss, my_endbss_static)

BssDumpsOf(r) ==
  { n \in 1..Len(dumps) :
      /\ dumps[n].what \in {"bss", "bss_static"}
      /\ r >= dumps[n].rva /\ r < dumps[n].rva + dumps[n].size }

\* C8: when the bss and static bss ranges intersect, get_section_info leaves
\* one region from the smaller start to the larger end and no static region,
\* and the copier dumps every cell of it exactly once.
C8_OverlapMerged ==
  (Analysed /\ BssIntersect) =>
    /\ bss_start = Min2(my_begbss, my_begbss_static)
    /\ bss_start + bss_size = Max2(my_endbss, my_endbss_static)
    /\ bss_section_static = NoSection
    /\ Laid =>
         \A r \in bss_start..(bss_start + bss_size - 1) :
           /\ Cardinality(BssDumpsOf(r)) = 1
           /\ dst_cells[dst_section[bss_section].PointerToRawData
                        + (r - Src[bss_section].VirtualAddress)] = MemByte(r)

\* Two ranges that overlap without one containing the other were dumped.
C8_Witness ==
  /\ Laid /\ BssIntersect
  /\ my_begbss < my_begbss_static /\ my_endbss < my_endbss_static
  /\ Len(dumps) > 0

Spans(beg, end) ==
  /\ beg # 0
  /\ rva_to_section(beg, Src) # rva_to_section(end, Src)

OutputUntouched ==
  /\ out_file.state = "untouched"
  /\ dst = 0
  /\ \A o \in DOMAIN dst_cells : dst_cells[o] = ZeroByte

\* C9: if the two ends of the data region (taken from the symbols), of the bss
\* region or of the static bss region lie in different sections, unexec has
\* exited with status 1 out of get_section_info, the output file untouched.
C9_SpanningRegionAborts ==
  (\/ Spans(my_begdata, my_edata)
   \/ Spans(my_begbss, my_endbss)
   \/ Spans(my_begbss_static, my_endbss_static)) =>
    /\ pc = "exited"
    /\ exit_code = 1
    /\ OutputUntouched

C9_Witness ==
  /\ pc = "exited"
  /\ ~Spans(my_begdata, my_edata)
  /\ ~Spans(my_begbss, my_endbss)
  /\ Spans(my_begbss_static, my_endbss_static)

Copying == pc \in {"copy_headers", "copy_section", "copy_trailer", "patch"}

\* C10: with a wrong DOS magic number or NT signature, once get_section_info
\* has run unexec has exited with status 1 and a message naming the file, no
\* copy step has run and no output file exists; and unexec never exits with a
\* diagnostic from a copy step.
C10_BadSignatureAborts ==
  [][ /\ (~in_file.e_magic_ok \/ ~in_file.Signature_ok) =>
           /\ pc = "get_section_info" =>
                /\ pc' = "exited"
                /\ exit_code' = 1
                /\ exit_msg'.file = in_file.name
           /\ ~Copying'
           /\ OutputUntouched'
      /\ Copying => pc' # "exited" ]_vars

C10_Witness ==
  /\ pc = "exited"
  /\ in_file.e_magic_ok /\ ~in_file.Signature_ok
  /\ exit_msg.text = "Invalid IMAGE_NT_SIGNATURE"

\* ------------------------------------------------------------- handles, sizes
\* C11: whenever unexec has ended, by completion or by a failure exit, no file
\* handle, file mapping or view of the source or the destination is still held.
C11_HandlesReleased ==
  pc \in {"done", "exited"} => handles = {}

\* C12: the size the output file is created and mapped with is the cursor the
\* copier ends at, for every image the analysis accepts.
C12_SizeIsFinalCursor ==
  Laid => out_file.size = out_file.final

\* ------------------------------------------------------------- patched header
\* Sum over the output's sections carrying the flag of VirtualSize rounded up
\* to the alignment.
FlaggedTotal(flag) ==
  Wrap(SumUpTo([j \in Sections |->
                  IF flag \in dst_section[j].Characteristics
                  THEN ROUND_UP(dst_section[j].VirtualSize, in_file.FileAlignment)
                  ELSE 0],
               in_file.NumberOfSections))

\* C13: after patching, SizeOfInitializedData is the sum over the output's
\* initialized-data sections of the size rounded up to FileAlignment,
\* SizeOfUninitializedData the same sum over its uninitialized-data sections,
\* and a section the copier flipped counts in the initialized total only.
C13_DataTotals ==
  Copied =>
    /\ dst_nt_header.SizeOfInitializedData = FlaggedTotal("INIT")
    /\ dst_nt_header.SizeOfUninitializedData = FlaggedTotal("UNINIT")
    /\ \A j \in BssOwners :
         /\ "INIT" \in dst_section[j].Characteristics
         /\ "UNINIT" \notin dst_section[j].Characteristics

\* An uninitialized-data section was flipped and the totals were recomputed.
C13_Witness ==
  /\ Copied
  /\ \E j \in BssOwners : "UNINIT" \in Src[j].Characteristics
  /\ dst_nt_header.SizeOfInitializedData > 0

\* C14: after patching, every non-zero PointerToLinenumbers, the
\* PointerToSymbolTable and every debug directory entry's PointerToRawData is
\* relocate_offset of the source's value, applied once; with no section
\* holding the debug directory no cell of the output is patched.
C14_OffsetsRelocatedOnce ==
  Copied =>
    /\ \A j \in Sections :
         Src[j].PointerToLinenumbers # 0 =>
           dst_section[j].PointerToLinenumbers =
             relocate_offset(Src[j].PointerToLinenumbers, Src, dst_section)
    /\ in_file.PointerToSymbolTable # 0 =>
         dst_nt_header.PointerToSymbolTable =
           relocate_offset(in_file.PointerToSymbolTable, Src, dst_section)
    /\ DstDebugSection # NoSection =>
         \A e \in 1..Len(in_file.DebugEntries) :
           in_file.DebugEntries[e] # 0 =>
             DebugPointer(dst_cells[DstDebugOffset + e - 1]) =
               relocate_offset(in_file.DebugEntries[e], Src, dst_section)
    /\ DstDebugSection = NoSection =>
         \A o \in DOMAIN dst_cells : dst_cells[o].k # "dbg"

\* Offsets were patched after a section grew, in an image with a debug
\* directory, a symbol table and line numbers.
C14_Witness ==
  /\ Copied
  /\ \E j \in Sections : Growth(j) > 0
  /\ DstDebugSection # NoSection
  /\ in_file.PointerToSymbolTable # 0
  /\ dst_nt_header.PointerToSymbolTable # in_file.PointerToSymbolTable
  /\ Src[1].PointerToLinenumbers # 0

\* C15: at the end the CheckSum field is zero if CheckSumMappedFile could not
\* be had, and otherwise the checksum of the output's first p_outfile->size
\* cells (the final size); unexec goes on to close its files either way.
C15_Checksum ==
  pc \in {"close_file_data", "done"} =>
    /\ pfnCheckSumMappedFile = "NULL" => dst_nt_header.CheckSum = 0
    /\ pfnCheckSumMappedFile # "NULL" =>
         dst_nt_header.CheckSum = CheckSumMappedFile(dst_cells, out_file.final)

C15_Witness ==
  /\ pc = "done"
  /\ pfnCheckSumMappedFile = "NULL"
  /\ in_file.CheckSum # 0
  /\ out_file.final > in_file.size

\* ------------------------------------------------------------- section table
HasRaw(sec) == sec.SizeOfRawData > 0

\* C16: the output's section table has the source's sections, in the same
\* order with the same names and virtual addresses; those with raw data start
\* at multiples of FileAlignment, one after the other without overlapping.
C16_TableOrder ==
  Laid =>
    /\ Len(dst_section) = in_file.NumberOfSections
    /\ \A j \in Sections :
         /\ dst_section[j].Name = Src[j].Name
         /\ dst_section[j].VirtualAddress = Src[j].VirtualAddress
         /\ HasRaw(dst_section[j]) =>
              dst_section[j].PointerToRawData % in_file.FileAlignment = 0
    /\ \A j, k \in Sections :
         (j < k /\ HasRaw(dst_section[j]) /\ HasRaw(dst_section[k])) =>
           /\ dst_section[j].PointerToRawData < dst_section[k].PointerToRawData
           /\ dst_section[j].PointerToRawData + dst_section[j].SizeOfRawData
                <= dst_section[k].PointerToRawData

\* Two sections with raw data, the first of which grew.
C16_Witness ==
  /\ Laid
  /\ \E j, k \in Sections :
       /\ j < k
       /\ Growth(j) > 0
       /\ HasRaw(dst_section[k])

\* The region ends, rounded up, exactly where the section's raw data ends.
ExactFill(sec, start, size) ==
  ROUND_UP(RVA_TO_SECTION_OFFSET(start, Src[sec]) + size, in_file.FileAlignment)
    = Src[sec].SizeOfRawData

NoEarlierGrowth(sec) ==
  \A h \in 1..(sec - 1) : dst_section[h].SizeOfRawData = Src[h].SizeOfRawData

SameRaw(sec) ==
  /\ dst_section[sec].SizeOfRawData = Src[sec].SizeOfRawData
  /\ dst_section[sec].PointerToRawData = Src[sec].PointerToRawData

\* The bss regions dumped into the section, as << start, size >>.
BssRegionsOf(sec) ==
  (IF sec = bss_section THEN { << bss_start, bss_size >> } ELSE {})
    \cup (IF sec = bss_section_static
          THEN { << bss_start_static, bss_size_static >> } ELSE {})

\* C17 as stated: a section one of whose dumped regions exactly fills its raw
\* data, no earlier section having grown, keeps its SizeOfRawData and its
\* PointerToRawData.
C17_AsStated ==
  Laid =>
    \A j \in Sections :
      (/\ NoEarlierGrowth(j)
       /\ \/ \E r \in BssRegionsOf(j) : ExactFill(j, r[1], r[2])
          \/ j = data_section /\ ExactFill(j, data_start, data_size))
      => SameRaw(j)

\* C17, amended: a section into which a bss region was dumped, every bss
\* region dumped into it ending (rounded up) exactly where its raw data ends or
\* before, no earlier section having grown, keeps its SizeOfRawData and its
\* PointerToRawData.
C17_ExactFillUnchanged ==
  Laid =>
    \A j \in Sections :
      (/\ NoEarlierGrowth(j)
       /\ \E r \in BssRegionsOf(j) : ExactFill(j, r[1], r[2])
       /\ \A r \in BssRegionsOf(j) :
            ROUND_UP(RVA_TO_SECTION_OFFSET(r[1], Src[j]) + r[2], in_file.FileAlignment)
              <= Src[j].SizeOfRawData)
      => SameRaw(j)

C17_Witness ==
  /\ Laid
  /\ \E j \in Sections :
       /\ j > 1
       /\ NoEarlierGrowth(j)
       /\ j = bss_section
       /\ ExactFill(j, bss_start, bss_size)
       /\ SameRaw(j)

\* ============================================================== movemail
\* lib-src/movemail.c, built for a POSIX system without MAIL_USE_MAILLOCK: a
\* parent that takes the lock file (unless the build locks with flock/lockf),
\* a child that copies the inbox to the destination and empties the inbox,
\* and popmail for an inbox named po:user.  The state is one record,
\* movemail, whose fields carry the names of main's variables; the inbox, the
\* destination, the lock file and the POP server are fields of it too.

MaxInbox == 4       \* bytes in the inbox, at most
BufSize  == 2       \* sizeof buf, scaled down
MaxMsgs  == 2       \* messages on the POP server, at most
LockRetries == 5    \* retries of the system lock call

Builds ==
  { [MAIL_USE_SYSTEM_LOCK |-> TRUE,  MAIL_UNLINK_SPOOL |-> FALSE],
    [MAIL_USE_SYSTEM_LOCK |-> FALSE, MAIL_UNLINK_SPOOL |-> FALSE],
    [MAIL_USE_SYSTEM_LOCK |-> FALSE, MAIL_UNLINK_SPOOL |-> TRUE] }

\* The inbox holds bytes 1..n.
Bytes(n) == [k \in 1..n |-> k]

NoOutfile == [state |-> "absent", data |-> << >>, synced |-> "no", closed |-> FALSE]

MovemailStart(build, pop, preserve, reverse, n, exists, lock, stale) ==
  [pc |-> "main", build |-> build, pop |-> pop,
   preserve_mail |-> preserve, pop_reverse_order |-> reverse,
   inbox0 |-> Bytes(n),
   inbox |-> [state |-> "present", data |-> Bytes(n)],
   outfile |-> IF exists THEN [NoOutfile EXCEPT !.state = "present"] ELSE NoOutfile,
   out_ours |-> FALSE,
   lockfile |-> lock, lock_stale |-> stale,
   lockname_unlinked |-> FALSE, delete_lockname |-> FALSE,
   lockcount |-> 0, errno |-> "none", offset |-> 0,
   wait_status |-> "none", exit |-> -1, msg |-> "",
   server |-> [msgs |-> 1..n, marked |-> {}, open |-> FALSE, dele |-> << >>],
   nmsgs |-> 0, i |-> 0]

MovemailRuns ==
  { MovemailStart(b, FALSE, p, FALSE, n, e, l[1], l[2]) :
      b \in Builds, p \in BOOLEAN, n \in 0..MaxInbox, e \in BOOLEAN,
      l \in { <<"absent", FALSE>>, <<"other", FALSE>>, <<"other", TRUE>> } }
  \cup
  { MovemailStart(b, TRUE, p, r, n, e, "absent", FALSE) :
      b \in { x \in Builds : x.MAIL_USE_SYSTEM_LOCK }, p \in BOOLEAN,
      r \in BOOLEAN, n \in 0..MaxMsgs, e \in BOOLEAN }

InitMovemail ==
  /\ movemail \in MovemailRuns
  /\ UnexecNotRun
  /\ addpm = NotRun
  /\ w32reg = NotRun
  /\ lockers = NotRun

MovemailStep(m) ==
  /\ movemail' = m
  /\ UNCHANGED << unexec, addpm, w32reg, lockers >>

\* fatal, lines 547-554, called in the parent: the process ends with
\* EXIT_FAILURE after removing the lock file it made.
fatal(m, why) ==
  [m EXCEPT !.lockfile = IF m.delete_lockname THEN "absent" ELSE @,
            !.msg = why, !.exit = 1, !.pc = "exited"]

\* fatal called in the child: the child ends with EXIT_FAILURE, which the
\* parent collects.
child_fatal(m, why) ==
  [m EXCEPT !.lockfile = IF m.delete_lockname THEN "absent" ELSE @,
            !.msg = why, !.wait_status = "exited 1", !.pc = "waitpid"]

\* pfatal_and_delete that leaves the file where it is.
pfatal_and_delete_Keeps(m, why) == child_fatal(m, why)

\* pfatal_and_delete, lines 578-584, and the unlink of lines 422-424.
pfatal_and_delete(m, why) ==
  child_fatal([m EXCEPT !.outfile = NoOutfile, !.out_ours = FALSE], why)

\* Lines 225-246: po:user goes to popmail; otherwise privileges are dropped.
MovemailMain ==
  /\ movemail.pc = "main"
  /\ \/ MovemailStep([movemail EXCEPT !.pc =
          IF movemail.pop THEN "popmail"
          ELSE IF movemail.build.MAIL_USE_SYSTEM_LOCK THEN "fork"
          ELSE "lock_file"])
     \/ /\ ~movemail.pop
        /\ MovemailStep(fatal(movemail, "Failed to drop privileges"))

\* One turn of the loop of lines 286-322: make a temporary file, link it to
\* <inbox>.lock; if the lock exists, sleep, and remove it once if it is more
\* than 300 seconds old.
LockFile ==
  /\ movemail.pc = "lock_file"
  /\ \/ MovemailStep(fatal(movemail, "mkostemp"))
     \/ MovemailStep(fatal(movemail, "link"))
     \/ /\ movemail.lockfile = "absent"
        /\ MovemailStep([movemail EXCEPT !.lockfile = "ours",
                                         !.delete_lockname = TRUE,
                                         !.pc = "fork"])
     \/ /\ movemail.lockfile = "other"
        /\ \E unlinked \in BOOLEAN :
             IF ~movemail.lockname_unlinked /\ movemail.lock_stale
             THEN MovemailStep([movemail EXCEPT
                    !.lockname_unlinked = unlinked,
                    !.lockfile = IF unlinked THEN "absent" ELSE @])
             ELSE MovemailStep(movemail)

\* Another process removes its lock file.
OtherUnlocks ==
  /\ movemail.pc = "lock_file"
  /\ movemail.lockfile = "other"
  /\ MovemailStep([movemail EXCEPT !.lockfile = "absent"])

\* Lines 329-331.
Fork ==
  /\ movemail.pc = "fork"
  /\ \/ MovemailStep(fatal(movemail, "fork"))
     \/ MovemailStep([movemail EXCEPT !.pc = "open_inbox"])

ChildRuns ==
  movemail.pc \in {"open_inbox", "open_outfile", "lock", "copy", "fsync",
                   "close_outfile", "truncate"}

\* The child is killed by a signal.
ChildKilled ==
  /\ ChildRuns
  /\ MovemailStep([movemail EXCEPT !.wait_status = "signaled", !.pc = "waitpid"])

\* Lines 339-349.
OpenInbox ==
  /\ movemail.pc = "open_inbox"
  /\ \/ MovemailStep(child_fatal(movemail, "Failed to drop privileges"))
     \/ MovemailStep(child_fatal(movemail, "open inbox"))
     \/ MovemailStep([movemail EXCEPT !.pc = "open_outfile"])

\* Lines 351-359: the destination is created with O_EXCL.
OpenOutfile ==
  /\ movemail.pc = "open_outfile"
  /\ \/ MovemailStep(child_fatal(movemail, "open outfile"))
     \/ /\ movemail.outfile.state = "absent"
        /\ \/ MovemailStep([movemail EXCEPT
                  !.outfile = [NoOutfile EXCEPT !.state = "present"],
                  !.out_ours = TRUE,
                  !.pc = "lock"])
           \/ MovemailStep(child_fatal(
                [movemail EXCEPT !.outfile = [NoOutfile EXCEPT !.state = "present"],
                                 !.out_ours = TRUE],
                "Failed to regain privileges"))

RetryLock_AnyError(lockcount, errno) == lockcount <= LockRetries

\* The test of line 402, lockcount already incremented.
RetryLock(lockcount, errno) ==
  lockcount <= LockRetries /\ errno \in {"EAGAIN", "EBUSY"}

\* Lines 361-409: the lock call and its retries.
Lock ==
  /\ movemail.pc = "lock"
  /\ IF ~movemail.build.MAIL_USE_SYSTEM_LOCK
     THEN MovemailStep([movemail EXCEPT !.pc = "copy"])
     ELSE \E errno \in {"none", "EAGAIN", "EBUSY", "EBADF"} :
            LET m == [movemail EXCEPT !.errno = errno]
            IN IF errno = "none"
               THEN MovemailStep([m EXCEPT !.pc = "copy"])
               ELSE IF RetryLock(m.lockcount + 1, errno)
               THEN MovemailStep([m EXCEPT !.lockcount = @ + 1])
               ELSE MovemailStep(child_fatal([m EXCEPT !.lockcount = @ + 1], "lock"))

\* One turn of the loop of lines 414-439: read up to sizeof buf bytes, write
\* them; a read shorter than the buffer ends the loop.
Copy ==
  /\ movemail.pc = "copy"
  /\ LET left  == Len(movemail.inbox.data) - movemail.offset
         nread == Min2(BufSize, left)
         buf   == SubSeq(movemail.inbox.data, movemail.offset + 1,
                         movemail.offset + nread)
     IN \/ MovemailStep(child_fatal(movemail, "read"))
        \/ MovemailStep(pfatal_and_delete(movemail, "write"))
        \/ MovemailStep([movemail EXCEPT
             !.outfile.data = @ \o buf,
             !.offset = @ + nread,
             !.pc = IF nread < BufSize THEN "fsync" ELSE "copy"])

FsyncFails_Never(errno) == FALSE

\* The test of lines 442 and 706: fsync (fd) != 0 && errno != EINVAL.
FsyncFails(errno) == errno # "none" /\ errno # "EINVAL"

\* What became of the destination's sync.
Synced(errno) == IF errno = "none" THEN "yes" ELSE errno

\* Lines 442-443.
Fsync ==
  /\ movemail.pc = "fsync"
  /\ \E errno \in {"none", "EINVAL", "EIO"} :
       IF FsyncFails(errno)
       THEN MovemailStep(pfatal_and_delete(movemail, "fsync"))
       ELSE MovemailStep([movemail EXCEPT
              !.outfile.synced = Synced(errno),
              !.pc = "close_outfile"])

\* Lines 444-450.
CloseOutfile ==
  /\ movemail.pc = "close_outfile"
  /\ \/ MovemailStep(child_fatal(movemail, "Failed to drop privileges"))
     \/ MovemailStep(pfatal_and_delete(movemail, "close"))
     \/ MovemailStep([movemail EXCEPT !.outfile.closed = TRUE, !.pc = "truncate"])

\* The inbox after lines 452-475, given what unlink and creat did.
Emptied(m, unlinked, created) ==
  IF m.preserve_mail THEN m.inbox
  ELSE IF m.build.MAIL_UNLINK_SPOOL /\ unlinked
  THEN [state |-> "removed", data |-> << >>]
  ELSE IF created THEN [state |-> "present", data |-> << >>]
  ELSE m.inbox

\* Lines 452-486: empty the inbox, regain privileges, return EXIT_SUCCESS.
Truncate ==
  /\ movemail.pc = "truncate"
  /\ IF movemail.build.MAIL_USE_SYSTEM_LOCK
     THEN \/ /\ ~movemail.preserve_mail
             /\ MovemailStep(child_fatal(movemail, "ftruncate"))
          \/ \E regained \in BOOLEAN :
               LET m == [movemail EXCEPT !.inbox = Emptied(movemail, FALSE, TRUE)]
               IN IF regained
                  THEN MovemailStep([m EXCEPT !.wait_status = "exited 0",
                                              !.pc = "waitpid"])
                  ELSE MovemailStep(child_fatal(m, "Failed to regain privileges"))
     ELSE \E unlinked \in BOOLEAN, created \in BOOLEAN, regained \in BOOLEAN :
            LET m == [movemail EXCEPT !.inbox = Emptied(movemail, unlinked, created)]
            IN IF regained
               THEN MovemailStep([m EXCEPT !.wait_status = "exited 0",
                                           !.pc = "waitpid"])
               ELSE MovemailStep(child_fatal(m, "Failed to regain privileges"))

\* Lines 490-503: the parent collects the child.
WaitChild ==
  /\ movemail.pc = "waitpid"
  /\ \/ MovemailStep(fatal(movemail, "waitpid"))
     \/ /\ movemail.wait_status = "signaled"
        /\ MovemailStep([movemail EXCEPT !.exit = 1, !.pc = "exited"])
     \/ /\ movemail.wait_status = "exited 1"
        /\ MovemailStep([movemail EXCEPT !.exit = 1, !.pc = "exited"])
     \/ /\ movemail.wait_status = "exited 0"
        /\ MovemailStep([movemail EXCEPT
             !.lockfile = IF movemail.build.MAIL_USE_SYSTEM_LOCK THEN @ ELSE "absent",
             !.exit = 0, !.pc = "exited"])

\* ---- popmail, lines 615-737.  A return from popmail is main's return.

PopReturn(m, status) == [m EXCEPT !.exit = status, !.pc = "exited"]

\* pop_close drops the connection: the server forgets the deletion marks.
pop_close(m) == [m EXCEPT !.server.marked = {}, !.server.open = FALSE]

\* Lines 631-648: connect, count the messages, stop if there are none.
PopOpen ==
  /\ movemail.pc = "popmail"
  /\ \/ MovemailStep(PopReturn([movemail EXCEPT !.msg = "pop_open"], 1))
     \/ MovemailStep(PopReturn([movemail EXCEPT !.msg = "pop_stat",
                                                !.server.open = TRUE], 1))
     \/ LET n == Cardinality(movemail.server.msgs)
            m == [movemail EXCEPT !.server.open = TRUE, !.nmsgs = n]
        IN IF n = 0
           THEN MovemailStep(PopReturn(pop_close(m), 0))
           ELSE MovemailStep([m EXCEPT !.pc = "pop_create"])

\* Lines 650-691: create the destination with O_EXCL, own it, open a stream
\* on it, choose the order.
PopCreate ==
  /\ movemail.pc = "pop_create"
  /\ \/ MovemailStep(PopReturn(pop_close([movemail EXCEPT !.msg = "open"]), 1))
     \/ /\ movemail.outfile.state = "absent"
        /\ LET m == [movemail EXCEPT
                       !.outfile = [NoOutfile EXCEPT !.state = "present"],
                       !.out_ours = TRUE]
           IN \/ MovemailStep(PopReturn(pop_close([m EXCEPT !.msg = "fchown"]), 1))
              \/ MovemailStep(PopReturn(pop_close(
                   [m EXCEPT !.msg = "fdopen", !.outfile = NoOutfile]), 1))
              \/ MovemailStep([m EXCEPT
                   !.i = IF m.pop_reverse_order THEN m.nmsgs ELSE 1,
                   !.pc = "pop_retr"])

\* One turn of the loop of lines 693-704.
PopRetrieve ==
  /\ movemail.pc = "pop_retr"
  /\ LET increment == IF movemail.pop_reverse_order THEN -1 ELSE 1
         end       == IF movemail.pop_reverse_order THEN 1 ELSE movemail.nmsgs
     IN IF movemail.i * increment <= end * increment
        THEN \/ MovemailStep(PopReturn(pop_close(
                  [movemail EXCEPT !.msg = "pop_retr"]), 1))
             \/ \E status \in {1, 139} :      \* mbx_write failed: pop_close twice
                  MovemailStep(PopReturn(pop_close(
                    [movemail EXCEPT !.msg = "mbx_write"]), status))
             \/ MovemailStep([movemail EXCEPT
                  !.outfile.data = Append(@, movemail.i),
                  !.i = @ + increment])
        ELSE MovemailStep([movemail EXCEPT !.pc = "pop_fsync"])

\* Lines 706-717.
PopSync ==
  /\ movemail.pc = "pop_fsync"
  /\ \E errno \in {"none", "EINVAL", "EIO"} :
       IF FsyncFails(errno)
       THEN MovemailStep(PopReturn([movemail EXCEPT !.msg = "fsync",
                                                    !.outfile.closed = TRUE], 1))
       ELSE LET m == [movemail EXCEPT !.outfile.synced = Synced(errno)]
            IN \/ MovemailStep(PopReturn([m EXCEPT !.msg = "fclose"], 1))
               \/ MovemailStep([m EXCEPT !.outfile.closed = TRUE, !.i = 1,
                                         !.pc = "pop_delete"])

DeleteNext_IgnoresPreserve(m) == m.i <= m.nmsgs

\* The tests of lines 719-720.
DeleteNext(m) == ~m.preserve_mail /\ m.i <= m.nmsgs

\* One turn of the loop of lines 719-728.
PopDelete ==
  /\ movemail.pc = "pop_delete"
  /\ IF DeleteNext(movemail)
     THEN \/ MovemailStep(PopReturn(pop_close(
               [movemail EXCEPT !.msg = "pop_delete",
                                !.server.dele = Append(@, movemail.i)]), 1))
          \/ MovemailStep([movemail EXCEPT
               !.server.marked = @ \cup {movemail.i},
               !.server.dele = Append(@, movemail.i),
               !.i = @ + 1])
     ELSE MovemailStep([movemail EXCEPT !.pc = "pop_quit"])

\* Lines 730-736: QUIT makes the server remove the marked messages; when
\* pop_quit reports an error the server may or may not have done so.
PopQuit ==
  /\ movemail.pc = "pop_quit"
  /\ LET committed == [movemail EXCEPT
                         !.server.msgs = @ \ movemail.server.marked,
                         !.server.marked = {}, !.server.open = FALSE]
     IN \/ MovemailStep(PopReturn(committed, 0))
        \/ MovemailStep(PopReturn([committed EXCEPT !.msg = "pop_quit"], 1))
        \/ MovemailStep(PopReturn(pop_close([movemail EXCEPT !.msg = "pop_quit"]), 1))

NextMovemail ==
  \/ MovemailMain
  \/ LockFile
  \/ OtherUnlocks
  \/ Fork
  \/ ChildKilled
  \/ OpenInbox
  \/ OpenOutfile
  \/ Lock
  \/ Copy
  \/ Fsync
  \/ CloseOutfile
  \/ Truncate
  \/ WaitChild
  \/ PopOpen
  \/ PopCreate
  \/ PopRetrieve
  \/ PopSync
  \/ PopDelete
  \/ PopQuit

SpecMovemail == InitMovemail /\ [][NextMovemail]_vars

\* ---- properties of movemail

MovemailExited(status) == movemail.pc = "exited" /\ movemail.exit = status

LocalRun == movemail.pc # "not run" /\ ~movemail.pop

\* The destination is the file this run created, holding the whole inbox,
\* closed.
WholeInboxWritten ==
  /\ movemail.outfile.state = "present"
  /\ movemail.out_ours
  /\ movemail.outfile.data = movemail.inbox0
  /\ movemail.outfile.closed

\* A failure was reported, or the child did not exit normally.
Failed == movemail.msg # "" \/ movemail.wait_status = "signaled"

\* C18 as stated: a local run exits with status 0 only if the whole inbox was
\* written to the destination and the destination was synced and closed
\* without error; every reported failure and every child that does not exit
\* normally gives a nonzero status.
C18_AsStated ==
  /\ (LocalRun /\ MovemailExited(0)) =>
       WholeInboxWritten /\ movemail.outfile.synced = "yes"
  /\ (LocalRun /\ movemail.pc = "exited" /\ Failed) => movemail.exit # 0

\* C18 amended: as C18, except that the sync may have been refused with
\* EINVAL (a destination that cannot be synced), which the code tolerates.
C18_ExitStatus ==
  /\ (LocalRun /\ MovemailExited(0)) =>
       WholeInboxWritten /\ movemail.outfile.synced \in {"yes", "EINVAL"}
  /\ (LocalRun /\ movemail.pc = "exited" /\ Failed) => movemail.exit # 0

\* A run that needed more than one buffer and whose sync was refused with
\* EINVAL ended with status 0.
C18_Witness ==
  /\ LocalRun /\ MovemailExited(0)
  /\ Len(movemail.inbox0) > BufSize
  /\ movemail.outfile.synced = "EINVAL"

\* C19: after an exit with status 0 without the preserve option the source
\* mailbox is empty or removed (for POP: the server holds no message); with
\* the preserve option the source mailbox is unchanged in every state.
C19_SourceMailbox ==
  movemail.pc # "not run" =>
    /\ (MovemailExited(0) /\ ~movemail.preserve_mail) =>
         IF movemail.pop
         THEN movemail.server.msgs = {}
         ELSE movemail.inbox.state = "removed" \/ movemail.inbox.data = << >>
    /\ movemail.preserve_mail =>
         /\ movemail.inbox = [state |-> "present", data |-> movemail.inbox0]
         /\ movemail.server.msgs = 1..Len(movemail.inbox0)

\* ================================================================= addpm
\* nt/addpm.c: record the location of Emacs in the registry, then create the
\* Start Menu shortcut through the shell's COM interface, falling back on
\* DDE commands to PROGMAN.  The state is one record, addpm, whose fields
\* carry the names of main's variables; the registry, the shortcuts saved,
\* the folders tried and the DDE calls made are fields of it too.

\* The names of env_vars, lines 81-111.
env_vars ==
  {"emacs_dir", "EMACSLOADPATH", "SHELL", "EMACSDATA", "EMACSPATH", "EMACSDOC", "TERM"}

\* A registry key REG_ROOT: whether it can be opened for writing, and for
\* each name the value it holds, "none" or that of an earlier installation.
RootKeys ==
  { [present |-> p, values |-> [n \in env_vars |-> IF n \in names THEN "old" ELSE "none"]] :
      p \in BOOLEAN, names \in { {}, {"emacs_dir"}, {"SHELL", "TERM"} } }

AddpmStart(argc, quiet, app_paths, hklm, hkcu) ==
  [pc |-> "main", argc |-> argc, quiet |-> quiet,
   registry |-> [app_path_writable |-> app_paths, app_path |-> "unset",
                 HKEY_LOCAL_MACHINE |-> hklm, HKEY_CURRENT_USER |-> hkcu],
   registry0 |-> [HKEY_LOCAL_MACHINE |-> hklm, HKEY_CURRENT_USER |-> hkcu],
   com_available |-> TRUE, shortcuts_created |-> FALSE,
   shortcut |-> "none",
   saved |-> {}, tried |-> << >>, dde |-> << >>,
   exit |-> -1]

AddpmRuns ==
  { AddpmStart(argc, quiet, w, hklm, hkcu) :
      argc \in 1..2, quiet \in BOOLEAN, w \in BOOLEAN,
      hklm \in RootKeys, hkcu \in RootKeys }

InitAddpm ==
  /\ addpm \in AddpmRuns
  /\ UnexecNotRun
  /\ movemail = NotRun
  /\ w32reg = NotRun
  /\ lockers = NotRun

AddpmStep(a) ==
  /\ addpm' = a
  /\ UNCHANGED << unexec, movemail, w32reg, lockers >>

\* ReplaceSettings that sets every name of env_vars.
ReplaceSettings_All(key) ==
  [key EXCEPT !.values =
     [n \in env_vars |-> IF n = "emacs_dir" THEN "path" ELSE "default"]]

\* Lines 158-167: only the settings that exist are replaced.
ReplaceSettings(key) ==
  [key EXCEPT !.values =
     [n \in env_vars |-> IF key.values[n] = "none" THEN "none"
                          ELSE IF n = "emacs_dir" THEN "path"
                          ELSE "default"]]

\* add_registry, lines 114-170.
add_registry(reg) ==
  LET r == IF reg.app_path_writable
           THEN [reg EXCEPT !.app_path = "path\\bin\\emacs.exe"]
           ELSE reg
  IN IF r.HKEY_LOCAL_MACHINE.present
     THEN [r EXCEPT !.HKEY_LOCAL_MACHINE = ReplaceSettings(@)]
     ELSE IF r.HKEY_CURRENT_USER.present
     THEN [r EXCEPT !.HKEY_CURRENT_USER = ReplaceSettings(@)]
     ELSE r

\* Lines 186-240: find emacs_path, ask the user, write the registry.
AddpmMain ==
  /\ addpm.pc = "main"
  /\ LET go == [addpm EXCEPT !.registry = add_registry(@), !.pc = "CoInitialize"]
         stop == [addpm EXCEPT !.exit = 1, !.pc = "exited"]
     IN IF addpm.argc > 1
        THEN AddpmStep(go)
        ELSE \/ AddpmStep(stop)                 \* no module name, or not in \bin
             \/ /\ ~addpm.quiet
                /\ AddpmStep(stop)              \* the user cancelled
             \/ AddpmStep(go)

\* Lines 244-250.
CoInitialize ==
  /\ addpm.pc = "CoInitialize"
  /\ \E init \in BOOLEAN, instance \in BOOLEAN :
       AddpmStep([addpm EXCEPT
         !.com_available = init /\ instance,
         !.shortcut = IF init /\ instance THEN "IShellLink" ELSE @,
         !.pc = "common"])

\* The body of an attempt, lines 255-279 and 286-311: the shortcut is saved
\* when the folder name is short enough, the directory exists, the
\* IPersistFile interface is there and Save succeeds.
SaveShortcut(a, folder, short, dir, qi, save) ==
  IF short /\ dir /\ qi /\ save
  THEN [a EXCEPT !.shortcuts_created = TRUE, !.saved = @ \cup {folder}]
  ELSE a

\* Lines 252-280: CSIDL_COMMON_PROGRAMS.
TryCommon ==
  /\ addpm.pc = "common"
  /\ IF addpm.com_available
     THEN \E found \in BOOLEAN, short \in BOOLEAN, dir \in BOOLEAN,
             qi \in BOOLEAN, save \in BOOLEAN :
            LET a == [addpm EXCEPT !.tried = Append(@, "common"), !.pc = "user"]
            IN AddpmStep(IF found
                         THEN SaveShortcut(a, "common", short, dir, qi, save)
                         ELSE a)
     ELSE AddpmStep([addpm EXCEPT !.pc = "user"])

TryUser_Whenever(a) == a.com_available

\* The guard of line 282.
TryUser(a) == ~a.shortcuts_created /\ a.com_available

\* Lines 282-312: CSIDL_PROGRAMS.
TryPrograms ==
  /\ addpm.pc = "user"
  /\ IF TryUser(addpm)
     THEN \E found \in BOOLEAN, short \in BOOLEAN, dir \in BOOLEAN,
             qi \in BOOLEAN, save \in BOOLEAN :
            LET a == [addpm EXCEPT !.tried = Append(@, "user"), !.pc = "release"]
            IN AddpmStep(IF found
                         THEN SaveShortcut(a, "user", short, dir, qi, save)
                         ELSE a)
     ELSE AddpmStep([addpm EXCEPT !.pc = "release"])

\* Lines 314-318.
Release ==
  /\ addpm.pc = "release"
  /\ AddpmStep([addpm EXCEPT
       !.shortcut = IF addpm.com_available THEN "released" ELSE @,
       !.pc = "dde"])

\* Lines 320-346: the DDE conversation with PROGMAN, if no shortcut was
\* created, and the return.
Dde ==
  /\ addpm.pc = "dde"
  /\ IF ~addpm.shortcuts_created
     THEN \E conversation \in BOOLEAN :
            AddpmStep([addpm EXCEPT
              !.dde = IF conversation
                      THEN << "DdeInitialize", "DdeConnect", "CreateGroup",
                              "ReplaceItem", "AddItem", "DdeDisconnect",
                              "DdeUninitialize" >>
                      ELSE << "DdeInitialize", "DdeConnect", "DdeUninitialize" >>,
              !.exit = 0, !.pc = "exited"])
     ELSE AddpmStep([addpm EXCEPT !.exit = 0, !.pc = "exited"])

NextAddpm ==
  \/ AddpmMain
  \/ CoInitialize
  \/ TryCommon
  \/ TryPrograms
  \/ Release
  \/ Dde

SpecAddpm == InitAddpm /\ [][NextAddpm]_vars

\* ---- properties of addpm

AddpmReturned == addpm.pc = "exited" /\ addpm.exit = 0

Tried(folder) == \E k \in DOMAIN addpm.tried : addpm.tried[k] = folder

\* C20: a run that returns from main has used DDE exactly when no shortcut
\* was saved through the shell COM interface; no DDE call is ever made once
\* a shortcut is saved, no shortcut is saved after a DDE call, and the
\* per-user folder is tried only when the common folder gave no shortcut.
C20_DdeFallback ==
  addpm.pc # "not run" =>
    /\ AddpmReturned => (addpm.dde # << >> <=> addpm.saved = {})
    /\ addpm.dde # << >> => addpm.saved = {}
    /\ addpm.saved # {} => addpm.com_available
    /\ Tried("user") => "common" \notin addpm.saved

\* A run in which COM was available, both folders were tried, neither gave a
\* shortcut, and the DDE commands were sent.
C20_Witness ==
  /\ AddpmReturned
  /\ addpm.com_available
  /\ Tried("common") /\ Tried("user")
  /\ addpm.saved = {}
  /\ Len(addpm.dde) > 3

\* ================================================================ w32reg
\* src/w32reg.c: w32_get_string_resource.  Strings are sequences of one
\* character strings; a resource table is a sequence of entries "key:value";
\* a registry hive says whether REG_ROOT opens and, for each (lower-case)
\* value name, the type of the value it holds.

MaxKey     == 2     \* characters in a resource name, at most
MaxEntries == 2     \* entries in the override table, at most

Letters == {"a", "A"}

tolower(c) == IF c = "A" THEN "a" ELSE c

Lower(str) == [k \in 1..Len(str) |-> tolower(str[k])]

Keys == UNION { [1..n -> Letters] : n \in 1..MaxKey }

\* The entry "key:value".
Entry(key, value) == key \o << ":" >> \o << value >>

\* SYSTEM_DEFAULT_RESOURCES, lines 32-43, with names of the model's size.
SYSTEM_DEFAULT_RESOURCES ==
  << Entry(<< "a", "a" >>, "SystemWindowText") >>

\* The character at position k (from 1) of a NUL-terminated string.
CharAt(str, k) == IF k <= Len(str) THEN str[k] ELSE "NUL"

\* strnicmp (s, r, n) == 0: the first n characters agree, case ignored, up
\* to and including a NUL.
strnicmp0(str, r, n) ==
  LET m == Min2(n, Min2(Len(str), Len(r)) + 1)
  IN \A k \in 1..m : tolower(CharAt(str, k)) = tolower(CharAt(r, k))

NULL == [found |-> FALSE, value |-> << >>]

Found(value) == [found |-> TRUE, value |-> value]

EntryMatches_Prefix(value, resource) ==
  strnicmp0(value, resource, Len(resource))

\* The test of line 69.
EntryMatches(value, resource) ==
  /\ strnicmp0(value, resource, Len(resource))
  /\ CharAt(value, Len(resource) + 1) = ":"

\* w32_get_rdb_resource, lines 60-76: the text after the ':' of the first
\* entry that matches.
RECURSIVE w32_get_rdb_resource(_, _)
w32_get_rdb_resource(rdb, resource) ==
  IF rdb = << >> THEN NULL
  ELSE IF EntryMatches(Head(rdb), resource)
  THEN Found(SubSeq(Head(rdb), Len(resource) + 2, Len(Head(rdb))))
  ELSE w32_get_rdb_resource(Tail(rdb), resource)

REG_SZ == "REG_SZ"

\* RegQueryValueEx on an open key: value names are matched without case.
RegQueryValueEx(hive, name) == hive.types[Lower(name)]

\* What lines 95-119 leave in lpvalue for one hive.
QueryHive(hive, hname, name, class, dwexptype) ==
  IF ~hive.open THEN NULL
  ELSE IF RegQueryValueEx(hive, name) = dwexptype
  THEN Found(<< hname >> \o Lower(name))
  ELSE IF RegQueryValueEx(hive, class) = dwexptype
  THEN Found(<< hname >> \o Lower(class))
  ELSE NULL

\* w32_get_string_resource_1, lines 78-140.
w32_get_string_resource_1(r, name, class, dwexptype) ==
  LET user == QueryHive(r.HKEY_CURRENT_USER, "HKEY_CURRENT_USER", name, class, dwexptype)
      machine == QueryHive(r.HKEY_LOCAL_MACHINE, "HKEY_LOCAL_MACHINE", name, class, dwexptype)
  IN IF user.found THEN user
     ELSE IF machine.found THEN machine
     ELSE w32_get_rdb_resource(SYSTEM_DEFAULT_RESOURCES, name)

\* w32_get_string_resource, lines 145-165; r.rdb is << >> for a null rdb.
w32_get_string_resource(r, name, class) ==
  LET by_name  == w32_get_rdb_resource(r.rdb, name)
      by_class == w32_get_rdb_resource(r.rdb, class)
  IN IF by_name.found THEN by_name
     ELSE IF by_class.found THEN by_class
     ELSE IF r.inhibit_x_resources THEN NULL
     ELSE w32_get_string_resource_1(r, name, class, REG_SZ)

\* The override tables: entry k carries the value "rdb k".
Tables ==
  UNION { { [k \in 1..n |-> Entry(keys[k], IF k = 1 THEN "rdb 1" ELSE "rdb 2")] :
              keys \in [1..n -> Keys] } : n \in 0..MaxEntries }

LowerKeys == { Lower(k) : k \in Keys }

\* The hives: one that does not open, and those that open and hold under
\* "a" nothing, a string or a number, and under "aa" nothing or a string.
Hives ==
  { [open |-> FALSE, types |-> [k \in LowerKeys |-> "none"]] } \cup
  { [open |-> TRUE,
     types |-> [k \in LowerKeys |-> IF k = << "a" >> THEN ta
                                    ELSE IF k = << "a", "a" >> THEN tb ELSE "none"]] :
      ta \in {"none", "REG_SZ", "REG_DWORD"}, tb \in {"none", "REG_SZ"} }

Names == { << "a" >>, << "A", "a" >> }

Classes == { << "A" >>, << "a", "A" >> }

InitW32reg ==
  /\ \E rdb \in Tables, name \in Names, class \in Classes,
        inhibit \in BOOLEAN, user \in Hives, machine \in Hives :
       w32reg = [pc |-> "call", rdb |-> rdb, name |-> name, class |-> class,
                 inhibit_x_resources |-> inhibit,
                 HKEY_CURRENT_USER |-> user, HKEY_LOCAL_MACHINE |-> machine,
                 result |-> NULL]
  /\ UnexecNotRun
  /\ movemail = NotRun
  /\ addpm = NotRun
  /\ lockers = NotRun

GetStringResource ==
  /\ w32reg.pc = "call"
  /\ w32reg' = [w32reg EXCEPT
       !.result = w32_get_string_resource(w32reg, w32reg.name, w32reg.class),
       !.pc = "returned"]
  /\ UNCHANGED << unexec, movemail, addpm, lockers >>

NextW32reg == GetStringResource

SpecW32reg == InitW32reg /\ [][NextW32reg]_vars

\* ---- properties of w32_get_string_resource

\* The key of an entry: the text before its first ':'.
RECURSIVE KeyOf(_)
KeyOf(entry) ==
  IF entry = << >> \/ Head(entry) = ":" THEN << >>
  ELSE << Head(entry) >> \o KeyOf(Tail(entry))

\* The value of the first entry of the table whose whole key is the
\* resource, case ignored.
RECURSIVE TableValue(_, _)
TableValue(table, resource) ==
  IF table = << >> THEN NULL
  ELSE IF Lower(KeyOf(Head(table))) = Lower(resource)
  THEN Found(SubSeq(Head(table), Len(KeyOf(Head(table))) + 2, Len(Head(table))))
  ELSE TableValue(Tail(table), resource)

\* The string value a hive holds under a name.
HiveValue(hive, hname, resource) ==
  IF hive.open /\ hive.types[Lower(resource)] = REG_SZ
  THEN Found(<< hname >> \o Lower(resource))
  ELSE NULL

\* The first found of a sequence of lookups.
RECURSIVE FirstFound(_)
FirstFound(lookups) ==
  IF lookups = << >> THEN NULL
  ELSE IF Head(lookups).found THEN Head(lookups)
  ELSE FirstFound(Tail(lookups))

OverrideLookups ==
  << TableValue(w32reg.rdb, w32reg.name), TableValue(w32reg.rdb, w32reg.class) >>

StoreLookups ==
  << HiveValue(w32reg.HKEY_CURRENT_USER, "HKEY_CURRENT_USER", w32reg.name),
     HiveValue(w32reg.HKEY_CURRENT_USER, "HKEY_CURRENT_USER", w32reg.class),
     HiveValue(w32reg.HKEY_LOCAL_MACHINE, "HKEY_LOCAL_MACHINE", w32reg.name),
     HiveValue(w32reg.HKEY_LOCAL_MACHINE, "HKEY_LOCAL_MACHINE", w32reg.class),
     TableValue(SYSTEM_DEFAULT_RESOURCES, w32reg.name) >>

\* C21 as stated: the result is the first value found among override table
\* by name, by class, current-user registry by name, by class, local-machine
\* registry by name, by class, defaults by name; tables match on the whole
\* key, case ignored.
C21_AsStated ==
  w32reg.pc = "returned" =>
    w32reg.result = FirstFound(OverrideLookups \o StoreLookups)

\* C21 amended: as C21 when inhibit_x_resources is not set; when it is set
\* only the override table is consulted.
C21_LookupOrder ==
  w32reg.pc = "returned" =>
    w32reg.result =
      IF w32reg.inhibit_x_resources
      THEN FirstFound(OverrideLookups)
      ELSE FirstFound(OverrideLookups \o StoreLookups)

\* A lookup that passed an override entry of which the name and the class
\* are only a prefix, a current-user value of the wrong type, and ended at
\* the local-machine value.
C21_Witness ==
  /\ w32reg.pc = "returned"
  /\ ~w32reg.inhibit_x_resources
  /\ w32reg.name = << "a" >> /\ w32reg.class = << "A" >>
  /\ w32reg.rdb # << >> /\ KeyOf(w32reg.rdb[1]) = << "A", "a" >>
  /\ w32reg.HKEY_CURRENT_USER.open
  /\ w32reg.HKEY_CURRENT_USER.types[<< "a" >>] = "REG_DWORD"
  /\ w32reg.result = Found(<< "HKEY_LOCAL_MACHINE", "a" >>)

\* ============================================ further properties of unexec

Covers(sec, offset) ==
  /\ offset >= sec.PointerToRawData
  /\ offset < sec.PointerToRawData + sec.SizeOfRawData

\* The offset moved as section j's raw data moved.
Displaced(offset, j) ==
  Wrap(offset + Wrap(dst_section[j].PointerToRawData - Src[j].PointerToRawData))

\* End of the raw data of the last section that has a raw pointer.
RawEnd(secs) ==
  LET j == LastWithRaw(secs, Len(secs))
  IN secs[j].PointerToRawData + secs[j].SizeOfRawData

\* Every section before j ends at or before the offset.
Passed(offset, j) ==
  \A h \in 1..(j - 1) : offset >= Src[h].PointerToRawData + Src[h].SizeOfRawData

\* C22: with the section tables the copier produced, relocate_offset moves an
\* offset covered by a source section's raw data (the first such section) by
\* that section's displacement, an offset beyond every source raw-data range
\* by the displacement of the end of the last raw data, and an offset in the
\* gap before a section's raw data by that section's displacement, not by a
\* later one's.
C22_RelocateOffset ==
  pc = "patch" =>
    \A offset \in 0..(in_file.size + 1) :
      LET r == relocate_offset(offset, Src, dst_section)
      IN /\ \A j \in Sections :
              (Covers(Src[j], offset) /\ \A h \in 1..(j - 1) : ~Covers(Src[h], offset))
                => r = Displaced(offset, j)
         /\ Passed(offset, in_file.NumberOfSections + 1)
              => r = Wrap(offset + RawEnd(dst_section) - RawEnd(Src))
         /\ \A j \in Sections :
              (offset < Src[j].PointerToRawData /\ Passed(offset, j))
                => r = Displaced(offset, j)

\* Two sections with raw data moved by different amounts, header offsets
\* in the gap before the first one's raw data, and a trailer that moved.
C22_Witness ==
  /\ pc = "patch"
  /\ Trailing # {}
  /\ RawEnd(dst_section) # RawEnd(Src)
  /\ \E offset \in 0..in_file.size :
       offset < Src[1].PointerToRawData /\ ~Covers(Src[1], offset)
  /\ \E j \in Sections, h \in Sections :
       /\ j < h
       /\ HasRaw(Src[j]) /\ HasRaw(Src[h])
       /\ dst_section[j].PointerToRawData - Src[j].PointerToRawData
            # dst_section[h].PointerToRawData - Src[h].PointerToRawData

\* C23: the copier goes from the header step to the section steps, one per
\* section in ascending index, then to the trailer step, then leaves; every
\* section step and the trailer step start with the cursor at a multiple of
\* FileAlignment and not below where the step before started, and
\* SizeOfHeaders is the cursor the header step ends with.  (A step that
\* writes outside the mapped view may end the process instead.)
C23_CopierOrder ==
  [][ /\ pc' = "copy_section" =>
           /\ pc \in {"copy_headers", "copy_section"}
           /\ i' = (IF pc = "copy_headers" THEN 1 ELSE i + 1)
           /\ i' <= in_file.NumberOfSections
      /\ pc' = "copy_trailer" =>
           /\ pc = "copy_section"
           /\ i = in_file.NumberOfSections
      /\ pc = "copy_headers" =>
           /\ dst = 0
           /\ pc' \in {"copy_section", "crashed"}
           /\ pc' = "copy_section" => dst_nt_header'.SizeOfHeaders = dst'
      /\ pc = "copy_section" => pc' \in {"copy_section", "copy_trailer", "crashed"}
      /\ pc = "copy_trailer" => pc' \in {"patch", "crashed"}
      /\ pc' \in {"copy_section", "copy_trailer"} =>
           /\ dst' % in_file.FileAlignment = 0
           /\ dst' >= dst
    ]_vars

\* The copier has reached the trailer step after two section steps that
\* moved the cursor, the headers having needed padding.
C23_Witness ==
  /\ pc = "copy_trailer"
  /\ i = in_file.NumberOfSections + 1
  /\ in_file.NumberOfSections >= 2
  /\ HeaderLen % in_file.FileAlignment # 0
  /\ dst > dst_section[2].PointerToRawData
  /\ dst_section[2].PointerToRawData > dst_section[1].PointerToRawData

\* Where the section that owns a dump starts in the output: the dump was
\* placed at that start plus the region's offset into the section.
DumpSectionStart(d, sec) == d.at - RVA_TO_SECTION_OFFSET(d.rva, Src[sec])

\* C24: the dump of the data region lies inside [section start, section
\* start + SizeOfRawData) of its section in the output, and when the section
\* owns no bss region the section step ends with the cursor at section start
\* + SizeOfRawData (rounded up to FileAlignment).
C24_DataDumpInRange ==
  \A k \in DOMAIN dumps :
    dumps[k].what = "data" =>
      LET start == DumpSectionStart(dumps[k], data_section)
      IN /\ dumps[k].at >= start
         /\ dumps[k].at + dumps[k].size <= start + Src[data_section].SizeOfRawData
         /\ (pc = "copy_section" /\ i = data_section + 1 /\ data_section \notin BssOwners)
              => dst = ROUND_UP(start + Src[data_section].SizeOfRawData,
                                in_file.FileAlignment)

\* ================================================ further properties of movemail

InboxAsFound == [state |-> "present", data |-> movemail.inbox0]

DestinationFailure == movemail.msg \in {"write", "fsync", "close"}

\* C25 as stated: in a local run the inbox is changed only once the whole
\* inbox is in the destination and the destination is synced and closed
\* without error, and after a failed write, sync or close the destination
\* file is gone.
C25_AsStated ==
  LocalRun =>
    /\ movemail.inbox # InboxAsFound =>
         WholeInboxWritten /\ movemail.outfile.synced = "yes"
    /\ DestinationFailure => movemail.outfile.state = "absent"

\* C25 amended: as C25, except that the sync may have been refused with
\* EINVAL, which the code does not treat as a failure.
C25_TruncateLast ==
  LocalRun =>
    /\ movemail.inbox # InboxAsFound =>
         WholeInboxWritten /\ movemail.outfile.synced \in {"yes", "EINVAL"}
    /\ DestinationFailure => movemail.outfile.state = "absent"

\* An inbox of more than one buffer has been emptied, the child not yet
\* collected.
C25_Witness ==
  /\ LocalRun
  /\ movemail.pc = "waitpid"
  /\ ~movemail.preserve_mail
  /\ Len(movemail.inbox0) > BufSize
  /\ movemail.inbox.data = << >>
  /\ movemail.outfile.data = movemail.inbox0

\* ------------------------------------------ movemail processes and one lock
\* Lines 259-324 and 497-498 run by several processes on the same inbox,
\* without MAIL_USE_SYSTEM_LOCK, one system call at a time.  The lock file
\* is [owner, old]: owner 0 is no file, Dead a process that ended without
\* removing it; old says that its st_ctime is more than 300 seconds back.

NumProcs == 2

Procs == 1..NumProcs

Dead == NumProcs + 1

NoLock == [owner |-> 0, old |-> FALSE]

InitLockers ==
  /\ lockers \in
       { [pc |-> "running", lock |-> l,
          procs |-> [p \in Procs |-> [pc |-> "link", lockname_unlinked |-> FALSE]],
          removals |-> {}] :
           l \in {NoLock, [owner |-> Dead, old |-> FALSE], [owner |-> Dead, old |-> TRUE]} }
  /\ UnexecNotRun
  /\ movemail = NotRun
  /\ addpm = NotRun
  /\ w32reg = NotRun

LockersStep(l) ==
  /\ lockers' = l
  /\ UNCHANGED << unexec, movemail, addpm, w32reg >>

At(p, where) == lockers.procs[p].pc = where

\* Lines 291-309: mkostemp, link, unlink of the temporary name.
LinkLock(p) ==
  /\ At(p, "link")
  /\ \/ LockersStep([lockers EXCEPT !.procs[p].pc = "fatal"])
     \/ IF lockers.lock.owner = 0
        THEN LockersStep([lockers EXCEPT !.lock = [owner |-> p, old |-> FALSE],
                                         !.procs[p].pc = "locked"])
        ELSE LockersStep([lockers EXCEPT !.procs[p].pc = "stat"])

\* Lines 310-319: sleep, then the test of the lock's age.
StatLock(p) ==
  /\ At(p, "stat")
  /\ LET stale == /\ ~lockers.procs[p].lockname_unlinked
                  /\ lockers.lock.owner # 0
                  /\ lockers.lock.old
     IN LockersStep([lockers EXCEPT
          !.procs[p].pc = IF stale THEN "unlink" ELSE "link"])

\* Line 320: unlink (lockname), after the test.
UnlinkLock(p) ==
  /\ At(p, "unlink")
  /\ \/ LockersStep([lockers EXCEPT
          !.lock = NoLock,
          !.removals = IF lockers.lock.owner = 0 THEN @
                       ELSE @ \cup { [by |-> p, owner |-> lockers.lock.owner,
                                      old |-> lockers.lock.old,
                                      again |-> \E r \in @ : r.by = p] },
          !.procs[p].lockname_unlinked = TRUE,
          !.procs[p].pc = "link"])
     \/ LockersStep([lockers EXCEPT !.procs[p].pc = "link"])   \* EACCES and the like

\* Lines 324-498, successful: the inbox is read and emptied, then the parent
\* removes the file named <inbox>.lock.
Unlock(p) ==
  /\ At(p, "locked")
  /\ LockersStep([lockers EXCEPT !.lock = NoLock, !.procs[p].pc = "done"])

\* Time passes: the lock file becomes more than 300 seconds old.
Age ==
  /\ lockers.pc = "running"
  /\ lockers.lock.owner # 0
  /\ ~lockers.lock.old
  /\ LockersStep([lockers EXCEPT !.lock.old = TRUE])

NextLockers ==
  \/ \E p \in Procs : LinkLock(p)
  \/ \E p \in Procs : StatLock(p)
  \/ \E p \in Procs : UnlinkLock(p)
  \/ \E p \in Procs : Unlock(p)
  \/ Age

SpecLockers == InitLockers /\ [][NextLockers]_vars

\* Between the successful link and the removal of the lock.
Holds(p) == lockers.pc = "running" /\ At(p, "locked")

\* C26: at most one process at a time is between linking <inbox>.lock and
\* removing it; a lock of another owner is removed only when it is more than
\* 300 seconds old, and by one process at most once.
C26_OneHolder ==
  lockers.pc = "running" =>
    /\ \A p \in Procs, q \in Procs : (Holds(p) /\ Holds(q)) => p = q
    /\ \A r \in lockers.removals : r.old /\ ~r.again

\* movemail with the child scheduled: a child at the lock call goes on.
SpecMovemailFair == SpecMovemail /\ WF_vars(Lock)

LockFailed == movemail.msg = "lock"

\* What holds of the system lock's retries in every state.
LockRetriesBounded ==
  LocalRun =>
    /\ movemail.lockcount <= LockRetries + 1
    /\ (movemail.pc = "lock" /\ movemail.lockcount > 0) =>
         /\ movemail.errno \in {"EAGAIN", "EBUSY"}
         /\ movemail.lockcount <= LockRetries
    /\ LockFailed =>
         /\ movemail.errno \notin {"EAGAIN", "EBUSY"} \/ movemail.lockcount = LockRetries + 1
         /\ movemail.offset = 0
         /\ movemail.inbox = InboxAsFound
         /\ movemail.outfile.data = << >>
         /\ movemail.pc = "exited" => movemail.exit # 0

\* C27: the system lock call is retried only after EAGAIN or EBUSY and at
\* most 5 times; any other error, or a failure after 5 retries, ends the run
\* with a nonzero status, the inbox neither read nor changed; and a child at
\* the lock call always gets past it.
C27_LockRetries ==
  /\ []LockRetriesBounded
  /\ (movemail.pc = "lock") ~> (movemail.pc # "lock")

\* The lock call failed with EAGAIN or EBUSY six times and the run ended.
C27_Witness ==
  /\ movemail.pc = "exited"
  /\ LockFailed
  /\ movemail.lockcount = LockRetries + 1
  /\ movemail.errno \in {"EAGAIN", "EBUSY"}
  /\ movemail.exit # 0

\* C28: once movemail has created <inbox>.lock, the file is gone when the
\* program has ended, whichever way it ended.
C28_LockRemoved ==
  (LocalRun /\ movemail.pc = "exited" /\ movemail.delete_lockname)
    => movemail.lockfile # "ours"

PopRun == movemail.pc # "not run" /\ movemail.pop

\* The messages in the order popmail retrieves them.
RetrievalOrder ==
  [k \in 1..movemail.nmsgs |->
     IF movemail.pop_reverse_order THEN movemail.nmsgs + 1 - k ELSE k]

\* No DELE was sent and the server holds what it held.
NothingDeleted ==
  /\ movemail.server.dele = << >>
  /\ movemail.server.marked = {}
  /\ movemail.server.msgs = 1..Len(movemail.inbox0)

RetrievalFailure == movemail.msg \in {"pop_retr", "mbx_write"}

\* C29 as stated: a DELE is sent only when all nmsgs messages are in the
\* destination, each once, in retrieval order, and the destination is
\* synced and closed without error; DELEs go 1..nmsgs; with preserve nothing
\* is ever deleted; a retrieval or write failure returns failure with
\* nothing deleted.
C29_AsStated ==
  PopRun =>
    /\ movemail.server.dele # << >> =>
         /\ movemail.outfile.data = RetrievalOrder
         /\ movemail.outfile.closed
         /\ movemail.outfile.synced = "yes"
         /\ \A k \in DOMAIN movemail.server.dele : movemail.server.dele[k] = k
    /\ movemail.preserve_mail => NothingDeleted
    /\ RetrievalFailure => NothingDeleted /\ movemail.exit # 0

\* C29 amended: as C29, except that the sync may have been refused with
\* EINVAL, which the code does not treat as a failure.
C29_DeleteLast ==
  PopRun =>
    /\ movemail.server.dele # << >> =>
         /\ movemail.outfile.data = RetrievalOrder
         /\ movemail.outfile.closed
         /\ movemail.outfile.synced \in {"yes", "EINVAL"}
         /\ \A k \in DOMAIN movemail.server.dele : movemail.server.dele[k] = k
    /\ movemail.preserve_mail => NothingDeleted
    /\ RetrievalFailure => NothingDeleted /\ movemail.exit # 0

\* Two messages retrieved last first, both deleted, the run ended well.
C29_Witness ==
  /\ PopRun
  /\ MovemailExited(0)
  /\ movemail.pop_reverse_order
  /\ movemail.outfile.data = << 2, 1 >>
  /\ movemail.server.dele = << 1, 2 >>
  /\ movemail.server.msgs = {}

\* ================================================ further properties of addpm

RegistryWritten == addpm.pc \notin {"not run", "main"} /\ addpm.exit # 1

\* The value add_registry gives a setting.
NewValue(n) == IF n = "emacs_dir" THEN "path" ELSE "default"

\* The hive's settings that existed have their new value, the others are
\* still absent.
Replaced(hive) ==
  /\ addpm.registry[hive].present = addpm.registry0[hive].present
  /\ \A n \in env_vars :
       addpm.registry[hive].values[n] =
         IF addpm.registry0[hive].values[n] = "none" THEN "none" ELSE NewValue(n)

Untouched(hive) == addpm.registry[hive] = addpm.registry0[hive]

\* C30: after add_registry, under SOFTWARE\GNU\Emacs the settings that
\* existed in the key it opened are overwritten and no absent one is
\* created; the key is the local-machine one if that opens, else the
\* current-user one, and if neither opens nothing is changed.  Before
\* add_registry runs nothing is changed either.
C30_RegistryFrame ==
  addpm.pc # "not run" =>
    IF ~RegistryWritten
    THEN Untouched("HKEY_LOCAL_MACHINE") /\ Untouched("HKEY_CURRENT_USER")
    ELSE IF addpm.registry0.HKEY_LOCAL_MACHINE.present
    THEN Replaced("HKEY_LOCAL_MACHINE") /\ Untouched("HKEY_CURRENT_USER")
    ELSE IF addpm.registry0.HKEY_CURRENT_USER.present
    THEN Untouched("HKEY_LOCAL_MACHINE") /\ Replaced("HKEY_CURRENT_USER")
    ELSE Untouched("HKEY_LOCAL_MACHINE") /\ Untouched("HKEY_CURRENT_USER")

\* add_registry found no local-machine key and replaced SHELL and TERM, and
\* nothing else, in the current-user key.
C30_Witness ==
  /\ RegistryWritten
  /\ ~addpm.registry0.HKEY_LOCAL_MACHINE.present
  /\ addpm.registry0.HKEY_LOCAL_MACHINE.values["emacs_dir"] = "old"
  /\ addpm.registry0.HKEY_CURRENT_USER.present
  /\ addpm.registry0.HKEY_CURRENT_USER.values["SHELL"] = "old"
  /\ addpm.registry.HKEY_CURRENT_USER.values["SHELL"] = "default"
  /\ addpm.registry.HKEY_CURRENT_USER.values["emacs_dir"] = "none"
  /\ addpm.registry.HKEY_LOCAL_MACHINE.values["emacs_dir"] = "old"

====
